---------------------------- MODULE Spec2Model ----------------------------
(***************************************************************************)
(* Model of the AI response implementation pipeline of smart-workplace:    *)
(*   scripts/execute-ai-task.sh   (third script of src/scripts/            *)
(*                                 commit-changes.sh, lines 80-820)        *)
(*   scripts/lib/file-operations.sh                                        *)
(*   scripts/lib/trap-handlers.sh                                          *)
(*                                                                         *)
(* Text is modelled as a sequence of one-character strings, so that the    *)
(* bash string primitives (pattern match, ${x%pat}, ${x/pat/rep}, $(<f),   *)
(* here-strings, read -r) are computed the way bash computes them.         *)
(***************************************************************************)
EXTENDS Integers, Sequences, FiniteSets, TLC

VARIABLES
    pc,               \* position of the process in the script
    githubActions,    \* environment: GITHUB_ACTIONS is set
    prereq,           \* what validate_all_prerequisites saw and recorded
    io,               \* file operation in progress, system call by system call
    clock,            \* date +%s, in seconds
    sources,          \* files the memory and parser caches are asked about
    memory,           \* /tmp/ai_task_memory, /tmp/file_parser_cache and each
                      \* process's AI_MEMORY_SESSION_ID
    lastStore,        \* last operation on the store
    writing,          \* per process: the store write it is in the middle of
    attempts,         \* /tmp/.openrouter_validation_attempts_<pid>: the time
                      \* written in it, None when there is no such file
    lastSanitize,     \* last run of the sanitizer
    exitTrap,         \* handler registered for EXIT
    intTrap,          \* handler registered for INT
    termTrap,         \* handler registered for TERM
    fs,               \* working tree: canonical path -> NoFile | file record
    dirs,             \* directories of the working tree (canonical paths)
    committed,        \* the tree of the commit checked out (git HEAD)
    transient,        \* transient artifacts present in the working directory
    registered,       \* TEMP_FILES_TO_CLEAN
    response,         \* lines of the response still to be read by the loop
    pass,             \* 0 none, 1 first response, 2 reformatted response
    in_code_block,    \* parser state
    current_file,
    code_content,
    block_language,
    blocks_found,
    changes_made,
    firstPass,        \* summary of the first extraction pass
    apiCalls,         \* number of reformat re-submissions made
    lastValidate,     \* last call of validate_file_path_security
    lastCall,         \* last call of the executor
    procRc,           \* return status of process_ai_response
    emitted,          \* has_changes values written to GITHUB_OUTPUT
    exitCode,         \* exit status of the process
    exitPath,         \* what made the process exit
    cleanupRuns       \* number of times cleanup_ai_temp_files was entered

vars == << pc, githubActions, prereq, io, clock, sources, memory, lastStore,
           writing, attempts, lastSanitize, exitTrap, intTrap, termTrap, fs, dirs,
           committed, transient, registered, response, pass, in_code_block,
           current_file, code_content, block_language, blocks_found,
           changes_made, firstPass, apiCalls, lastValidate, lastCall,
           procRc, emitted, exitCode, exitPath, cleanupRuns >>

(***************************************************************************)
(* Bounds of the model.                                                    *)
(***************************************************************************)
MaxPathLen == 6
MaxContentLen == 2
MaxBlocks == 2
MaxReformatBlocks == 1

BoundedSeqs(S, n) == UNION { [1..k -> S] : k \in 0..n }

None == [none |-> TRUE]

(***************************************************************************)
(* Bash string primitives.                                                 *)
(***************************************************************************)
Nl == "\n"

\* s has p at position i
IsPrefixAt(p, s, i) ==
    /\ i >= 1
    /\ i + Len(p) - 1 <= Len(s)
    /\ \A k \in 1..Len(p) : s[i + k - 1] = p[k]

StartsWith(s, p) == IsPrefixAt(p, s, 1)

EndsWith(s, p) == Len(p) <= Len(s) /\ IsPrefixAt(p, s, Len(s) - Len(p) + 1)

\* [[ "$s" == *"$p"* ]]
Contains(s, p) == \E i \in 1..(Len(s) + 1) : IsPrefixAt(p, s, i)

\* position of the leftmost match of p in s at or after i, 0 when none
RECURSIVE ScanFrom(_, _, _)
ScanFrom(s, p, i) ==
    IF i + Len(p) - 1 > Len(s) THEN 0
    ELSE IF IsPrefixAt(p, s, i) THEN i
    ELSE ScanFrom(s, p, i + 1)

\* ${s//"$p"/"$r"} : every match, left to right, non-overlapping
RECURSIVE PatSubAll(_, _, _)
PatSubAll(s, p, r) ==
    LET i == ScanFrom(s, p, 1) IN
    IF i = 0 \/ Len(p) = 0 THEN s
    ELSE SubSeq(s, 1, i - 1) \o r
         \o PatSubAll(SubSeq(s, i + Len(p), Len(s)), p, r)

\* ${s/"$p"/"$r"} : the leftmost match only
PatSubFirst(s, p, r) ==
    LET i == ScanFrom(s, p, 1) IN
    IF i = 0 THEN s
    ELSE SubSeq(s, 1, i - 1) \o r \o SubSeq(s, i + Len(p), Len(s))

\* ${s%$'\n'}
StripOneTrailingNl(s) ==
    IF Len(s) > 0 /\ s[Len(s)] = Nl THEN SubSeq(s, 1, Len(s) - 1) ELSE s

\* $(<file) : command substitution drops every trailing newline
RECURSIVE StripTrailingNls(_)
StripTrailingNls(s) ==
    IF Len(s) > 0 /\ s[Len(s)] = Nl
    THEN StripTrailingNls(SubSeq(s, 1, Len(s) - 1))
    ELSE s

\* pieces of s between occurrences of the character c
RECURSIVE Split(_, _)
Split(s, c) ==
    LET i == ScanFrom(s, <<c>>, 1) IN
    IF i = 0 THEN << s >>
    ELSE << SubSeq(s, 1, i - 1) >> \o Split(SubSeq(s, i + 1, Len(s)), c)

\* lines delivered by  while IFS= read -r line; do ...; done <<< "$x" :
\* the here-string appends one newline to x, read yields every terminated line
HereStringLines(x) == Split(x, Nl)

SpaceChars == { " ", "\t" }

RECURSIVE TrimLeft(_)
TrimLeft(s) ==
    IF Len(s) > 0 /\ s[1] \in SpaceChars THEN TrimLeft(Tail(s)) ELSE s

RECURSIVE TrimRight(_)
TrimRight(s) ==
    IF Len(s) > 0 /\ s[Len(s)] \in SpaceChars
    THEN TrimRight(SubSeq(s, 1, Len(s) - 1))
    ELSE s

UpperToLower ==
    [ c \in { "A", "C", "E", "H", "L", "P", "R", "S" } |->
        CASE c = "A" -> "a" [] c = "C" -> "c" [] c = "E" -> "e"
          [] c = "H" -> "h" [] c = "L" -> "l" [] c = "P" -> "p"
          [] c = "R" -> "r" [] c = "S" -> "s" ]

\* ${line,,} over the letters the model uses
LowerCase(s) ==
    [ i \in 1..Len(s) |->
        IF s[i] \in DOMAIN UpperToLower THEN UpperToLower[s[i]] ELSE s[i] ]

(***************************************************************************)
(* Path & type validator: validate_file_path_security.                     *)
(***************************************************************************)
\* $PWD of the process is /w/s
WorkspaceRoot == << <<"w">>, <<"s">> >>

IsAbsolutePath(file_path) == Len(file_path) > 0 /\ file_path[1] = "/"

\* realpath -m: walk the segments, "" and "." are skipped, ".." goes up
RECURSIVE Resolve(_, _)
Resolve(stack, segs) ==
    IF segs = << >> THEN stack
    ELSE LET seg == Head(segs) IN
         IF seg = << >> \/ seg = <<".">> THEN Resolve(stack, Tail(segs))
         ELSE IF seg = <<".", ".">>
              THEN Resolve(IF stack = << >> THEN stack
                           ELSE SubSeq(stack, 1, Len(stack) - 1), Tail(segs))
              ELSE Resolve(Append(stack, seg), Tail(segs))

\* canonical_path="$(realpath -m "$file_path")", as a sequence of segments
RealpathM(file_path) ==
    Resolve(IF IsAbsolutePath(file_path) THEN << >> ELSE WorkspaceRoot,
            Split(file_path, "/"))

\* [[ "$canonical_path" == "$PWD"/* ]]
InsideWorkspace(canonical_path) ==
    /\ Len(canonical_path) > Len(WorkspaceRoot)
    /\ SubSeq(canonical_path, 1, Len(WorkspaceRoot)) = WorkspaceRoot

\* [[ "$file_path" =~ \.\./|\.\.\\ ]]
MatchesTraversal(file_path) ==
    \/ Contains(file_path, <<".", ".", "/">>)
    \/ Contains(file_path, <<".", ".", "\\">>)

\* [[ "$file_path" =~ ^temp_|^tmp_|\.tmp$|\.temp$ ]]
MatchesTemporary(file_path) ==
    \/ StartsWith(file_path, <<"t", "e", "m", "p", "_">>)
    \/ StartsWith(file_path, <<"t", "m", "p", "_">>)
    \/ EndsWith(file_path, <<".", "t", "m", "p">>)
    \/ EndsWith(file_path, <<".", "t", "e", "m", "p">>)

ExecutableExtensions ==
    { <<"s", "h">>, <<"b", "a", "s", "h">>, <<"e", "x", "e">>,
      <<"b", "i", "n">>, <<"b", "a", "t">>, <<"c", "m", "d">>,
      <<"p", "s", "1">>, <<"p", "l">>, <<"r", "b">> }

\* [[ "$file_path" =~ \.(sh|bash|exe|bin|bat|cmd|ps1|pl|rb)$ ]]
MatchesExecutable(file_path) ==
    \E e \in ExecutableExtensions : EndsWith(file_path, <<".">> \o e)

LangEdit == <<"e", "d", "i", "t">>
LangPy == <<"p", "y">>
LangSh == <<"s", "h">>

\* Variant of the validator that lacks the extension rule; C2 does not hold
\* of a pipeline built on it.
validate_without_extension_rule(file_path, lang) ==
    IF ~InsideWorkspace(RealpathM(file_path)) THEN 1
    ELSE IF MatchesTraversal(file_path) THEN 1
    ELSE IF IsAbsolutePath(file_path) THEN 1
    ELSE IF MatchesTemporary(file_path) THEN 1
    ELSE 0

\* return status of validate_file_path_security: 0 accepted, 1 rejected
validate_file_path_security(file_path, lang) ==
    IF ~InsideWorkspace(RealpathM(file_path)) THEN 1
    ELSE IF MatchesTraversal(file_path) THEN 1
    ELSE IF IsAbsolutePath(file_path) THEN 1
    ELSE IF MatchesTemporary(file_path) THEN 1
    ELSE IF MatchesExecutable(file_path) /\ lang # LangEdit THEN 1
    ELSE 0

(***************************************************************************)
(* File operation executor: the working tree.                              *)
(*   fs   : function from the canonical path of every regular file (its    *)
(*          segments below the workspace root) to its file record          *)
(*   dirs : canonical paths of the directories below the workspace root    *)
(***************************************************************************)
\* size ceiling of apply_edit_operation, in bytes
MaxEditFileSize == 1048576

\* a file whose byte count is over the ceiling is not held character by
\* character: huge marks it, and its size is reported as ceiling + 1
File(c) == [content |-> c, huge |-> FALSE]
HugeFile(c) == [content |-> c, huge |-> TRUE]

\* stat -c%s "$file_path"
FileSize(f) == IF f.huge THEN MaxEditFileSize + 1 ELSE Len(f.content)

\* path below the workspace root of a canonical path inside the workspace
RelPath(canonical_path) ==
    SubSeq(canonical_path, Len(WorkspaceRoot) + 1, Len(canonical_path))

\* the file or directory the kernel reaches for a validated path
TargetOf(file_path) == RelPath(RealpathM(file_path))

\* [[ -f "$file_path" ]]
IsRegularFile(f, file_path) == TargetOf(file_path) \in DOMAIN f

\* [[ -d p ]] for a canonical path below the root
IsDirectory(ds, p) == p = << >> \/ p \in ds

RECURSIVE StripTrailingSlashes(_)
StripTrailingSlashes(s) ==
    IF Len(s) > 1 /\ s[Len(s)] = "/"
    THEN StripTrailingSlashes(SubSeq(s, 1, Len(s) - 1))
    ELSE s

RECURSIVE DropLastComponent(_)
DropLastComponent(s) ==
    IF Len(s) > 0 /\ s[Len(s)] # "/"
    THEN DropLastComponent(SubSeq(s, 1, Len(s) - 1))
    ELSE s

\* dirname "$file_path"
Dirname(file_path) ==
    LET t == DropLastComponent(StripTrailingSlashes(file_path)) IN
    IF t = << >> THEN <<".">> ELSE StripTrailingSlashes(t)

Prefixes(p) == { SubSeq(p, 1, k) : k \in 1..Len(p) }

\* mkdir -p d : fails at the first component that is a regular file, having
\* created the components before it
MkdirP(f, ds, d) ==
    LET blocked == { q \in Prefixes(d) : q \in DOMAIN f }
        made == { q \in Prefixes(d) :
                    \A b \in blocked : Len(q) < Len(b) }
    IN [ok |-> blocked = {}, dirs |-> ds \cup made]

\* Variant that appends a newline without stripping one first; C8 does not
\* hold of it.
WrittenContentAppendOnly(content) == content \o << Nl >>

\* content="${content%$'\n'}"; printf '%s\n' "$content"
WrittenContent(content) == StripOneTrailingNl(content) \o << Nl >>

\* create_or_update_file "$file_path" "$content"; ioOk is FALSE when the
\* host refuses to open the target for writing (permissions, full disk)
create_or_update_file(f, ds, file_path, content, ioOk) ==
    LET dir_path == Dirname(file_path)
        dirRel == RelPath(RealpathM(dir_path))
        needMkdir == dir_path # <<".">> /\ ~IsDirectory(ds, dirRel)
        mk == IF needMkdir THEN MkdirP(f, ds, dirRel)
              ELSE [ok |-> TRUE, dirs |-> ds]
        target == TargetOf(file_path)
        opened == /\ ioOk
                  /\ ~IsDirectory(mk.dirs, target)
                  /\ IsDirectory(mk.dirs, dirRel)
    IN [ fs    |-> IF opened
                   THEN (target :> File(WrittenContent(content))) @@ f
                   ELSE f,
         dirs  |-> mk.dirs,
         wrote |-> opened,
         rc    |-> 0 ]

\* the SEARCH/REPLACE parsing loop of apply_edit_operation
RECURSIVE ParseEditLines(_, _)
ParseEditLines(lines, st) ==
    IF lines = << >> THEN st
    ELSE LET line == Head(lines)
             bare == TrimLeft(TrimRight(LowerCase(line)))
         IN
         IF bare = <<"s", "e", "a", "r", "c", "h", ":">>
         THEN ParseEditLines(Tail(lines),
                  [st EXCEPT !.in_search = TRUE, !.in_replace = FALSE])
         ELSE IF bare = <<"r", "e", "p", "l", "a", "c", "e", ":">>
         THEN ParseEditLines(Tail(lines),
                  [st EXCEPT !.in_search = FALSE, !.in_replace = TRUE])
         ELSE IF st.in_search
         THEN ParseEditLines(Tail(lines),
                  [st EXCEPT !.search_text = @ \o line \o << Nl >>])
         ELSE IF st.in_replace
         THEN ParseEditLines(Tail(lines),
                  [st EXCEPT !.replace_text = @ \o line \o << Nl >>])
         ELSE ParseEditLines(Tail(lines), st)

\* the line is a SEARCH: marker
IsSearchMarker(line) ==
    TrimLeft(TrimRight(LowerCase(line))) = <<"s", "e", "a", "r", "c", "h", ":">>

\* the lines before the second SEARCH: marker
FirstPairLines(lines) ==
    LET later == { i \in 1..Len(lines) :
                     /\ IsSearchMarker(lines[i])
                     /\ \E j \in 1..(i - 1) : IsSearchMarker(lines[j]) }
    IN  IF later = {} THEN lines
        ELSE SubSeq(lines, 1, (CHOOSE i \in later :
                                 \A j \in later : i <= j) - 1)

\* Variant that stops at the second SEARCH: marker and so keeps the first
\* pair only; C25 does not hold of it.
ParseEditFirstPairOnly(edit_content) ==
    LET st == ParseEditLines(FirstPairLines(HereStringLines(edit_content)),
                  [in_search |-> FALSE, in_replace |-> FALSE,
                   search_text |-> << >>, replace_text |-> << >>])
    IN [search_text  |-> StripOneTrailingNl(st.search_text),
        replace_text |-> StripOneTrailingNl(st.replace_text)]

\* search_text / replace_text as apply_edit_operation derives them
ParseEdit(edit_content) ==
    LET st == ParseEditLines(HereStringLines(edit_content),
                  [in_search |-> FALSE, in_replace |-> FALSE,
                   search_text |-> << >>, replace_text |-> << >>])
    IN [search_text  |-> StripOneTrailingNl(st.search_text),
        replace_text |-> StripOneTrailingNl(st.replace_text)]

\* Variant that replaces every occurrence, as ${var//pat/rep} would; C6 does
\* not hold of it.
EditReplaceEvery(file_content, search_text, replace_text) ==
    PatSubAll(file_content, search_text, replace_text)

\* file_content="${file_content/"$search_text"/"$replace_text"}"
EditReplace(file_content, search_text, replace_text) ==
    PatSubFirst(file_content, search_text, replace_text)

\* Variant without the size ceiling; C7 does not hold of it.
TooLargeNever(f) == FALSE

\* [[ $(stat -c%s "$file_path") -gt 1048576 ]]
TooLarge(f) == FileSize(f) > MaxEditFileSize

\* [[ -z "$search_text" ]]
MissingSearch(search_text) == search_text = << >>

\* apply_edit_operation "$file_path" "$edit_content"
\*   trapSet: the function got as far as  trap "rm -f ..." EXIT
apply_edit_operation(f, file_path, edit_content) ==
    LET ed == ParseEdit(edit_content)
        target == TargetOf(file_path)
        fail(trapSet) == [fs |-> f, rc |-> 1, trapSet |-> trapSet,
                          search_text |-> ed.search_text,
                          replace_text |-> ed.replace_text]
    IN
    IF MissingSearch(ed.search_text) THEN fail(FALSE)
    ELSE IF ~IsRegularFile(f, file_path) THEN fail(FALSE)
    ELSE IF TooLarge(f[target]) THEN fail(TRUE)
    ELSE LET file_content == StripTrailingNls(f[target].content) IN
         IF Contains(file_content, ed.search_text)
         THEN [fs |-> [f EXCEPT ![target] =
                         File(EditReplace(file_content, ed.search_text,
                                          ed.replace_text) \o << Nl >>)],
               rc |-> 0, trapSet |-> TRUE,
               search_text |-> ed.search_text,
               replace_text |-> ed.replace_text]
         ELSE fail(TRUE)

(***************************************************************************)
(* Response parser: the fence-open line and path inference of              *)
(* implement_code_blocks_from_response.                                    *)
(***************************************************************************)
\* the backquote character (the lexer of TLA+ does not take it in a string)
Backquote == "BACKQUOTE"

Fence == << Backquote, Backquote, Backquote >>

\* [a-zA-Z0-9_+.-]
LangChars ==
    { "a", "b", "c", "d", "e", "f", "g", "h", "i", "j", "k", "l", "m",
      "n", "o", "p", "q", "r", "s", "t", "u", "v", "w", "x", "y", "z",
      "A", "B", "C", "D", "E", "F", "G", "H", "I", "J", "K", "L", "M",
      "N", "O", "P", "Q", "R", "S", "T", "U", "V", "W", "X", "Y", "Z",
      "0", "1", "2", "3", "4", "5", "6", "7", "8", "9",
      "_", "+", ".", "-" }

QuoteChars == { "'", "\"", Backquote }

\* length of the longest prefix of s made of characters of S
RECURSIVE RunLength(_, _)
RunLength(s, S) ==
    IF Len(s) > 0 /\ s[1] \in S THEN 1 + RunLength(Tail(s), S) ELSE 0

RECURSIVE StripLeading(_, _)
StripLeading(s, S) ==
    IF Len(s) > 0 /\ s[1] \in S THEN StripLeading(Tail(s), S) ELSE s

RECURSIVE StripTrailing(_, _)
StripTrailing(s, S) ==
    IF Len(s) > 0 /\ s[Len(s)] \in S
    THEN StripTrailing(SubSeq(s, 1, Len(s) - 1), S)
    ELSE s

\* the fence-close pattern: three backquotes and nothing else
IsBareFence(line) == line = Fence

\* the fence-open pattern: three backquotes, then anything
IsFenceOpen(line) == StartsWith(line, Fence)

\* lang_and_path="${BASH_REMATCH[1]} ${BASH_REMATCH[2]}", trimmed
LangAndPath(line) ==
    LET rest == SubSeq(line, 4, Len(line))
        sp   == RunLength(rest, SpaceChars)
        run  == RunLength(SubSeq(rest, sp + 1, Len(rest)), LangChars)
        g1   == SubSeq(rest, 1, sp + run)
        g2   == StripLeading(SubSeq(rest, sp + run + 1, Len(rest)),
                             SpaceChars)
    IN TrimRight(TrimLeft(g1 \o <<" ">> \o g2))

\* the sed that cleans the file path: outer blanks, then outer quotes
CleanFilePath(s) ==
    StripTrailing(StripLeading(TrimRight(TrimLeft(s)), QuoteChars),
                  QuoteChars)

\* block_language and current_file set by a fence-open line
ParseFenceOpen(line) ==
    LET lap == LangAndPath(line)
        run == RunLength(lap, LangChars)
        after == SubSeq(lap, run + 1, Len(lap))
    IN
    IF run >= 1 /\ Len(after) >= 2 /\ after[1] \in SpaceChars
    THEN [language |-> SubSeq(lap, 1, run),
          file     |-> CleanFilePath(StripLeading(after, SpaceChars))]
    ELSE IF run >= 1 /\ after = << >>
    THEN [language |-> lap, file |-> << >>]
    ELSE [language |-> << >>, file |-> << >>]

IdentStart ==
    LangChars \ { "0", "1", "2", "3", "4", "5", "6", "7", "8", "9",
                  "+", ".", "-" }
IdentChars == LangChars \ { "+", ".", "-" }

\* [[ $code_content =~ def[[:space:]]+([a-zA-Z_][a-zA-Z0-9_]*) ]]:
\* the identifier of the leftmost match starting at or after i, << >> if none
RECURSIVE DefName(_, _)
DefName(content, i) ==
    IF i + 4 > Len(content) THEN << >>
    ELSE LET after == SubSeq(content, i + 3, Len(content))
             sp == RunLength(after, SpaceChars \cup { Nl })
             id == SubSeq(after, sp + 1, Len(after))
         IN
         IF /\ IsPrefixAt(<<"d", "e", "f">>, content, i)
            /\ sp >= 1
            /\ Len(id) >= 1
            /\ id[1] \in IdentStart
         THEN SubSeq(id, 1, RunLength(id, IdentChars))
         ELSE DefName(content, i + 1)

\* [[ $code_content =~ \"name\"[[:space:]]*: ]]
HasNameKey(content) ==
    \E i \in 1..Len(content) :
        /\ IsPrefixAt(<<"\"", "n", "a", "m", "e", "\"">>, content, i)
        /\ LET after == SubSeq(content, i + 6, Len(content))
               sp == RunLength(after, SpaceChars \cup { Nl })
           IN Len(after) > sp /\ after[sp + 1] = ":"

\* The case statement with the branch for shell languages that was taken
\* out of it; C23 does not hold of it.
InferFilePathWithShell(language, content) ==
    IF language \in { LangSh, <<"b", "a", "s", "h">> }
    THEN <<"s", "c", "r", "i", "p", "t", ".", "s", "h">>
    ELSE IF language \in { <<"p", "y", "t", "h", "o", "n">>, <<"p", "y">> }
    THEN <<"m", "a", "i", "n", ".", "p", "y">>
    ELSE << >>

\* the case statement that infers a file path from the block language
InferFilePath(language, content) ==
    CASE language \in { <<"p", "y", "t", "h", "o", "n">>, <<"p", "y">> } ->
           IF DefName(content, 1) # << >>
           THEN DefName(content, 1) \o <<".", "p", "y">>
           ELSE <<"m", "a", "i", "n", ".", "p", "y">>
      [] language \in { <<"j", "a", "v", "a", "s", "c", "r", "i", "p", "t">>,
                        <<"j", "s">> } ->
           <<"s", "c", "r", "i", "p", "t", ".", "j", "s">>
      [] language = <<"j", "s", "o", "n">> ->
           IF HasNameKey(content)
           THEN <<"p", "a", "c", "k", "a", "g", "e", ".", "j", "s", "o", "n">>
           ELSE <<"c", "o", "n", "f", "i", "g", ".", "j", "s", "o", "n">>
      [] language \in { <<"y", "a", "m", "l">>, <<"y", "m", "l">> } ->
           <<"c", "o", "n", "f", "i", "g", ".", "y", "m", "l">>
      [] language \in { <<"m", "a", "r", "k", "d", "o", "w", "n">>,
                        <<"m", "d">> } ->
           <<"R", "E", "A", "D", "M", "E", ".", "m", "d">>
      [] OTHER -> << >>

\* file path of a block at its fence-close line
FilePathAtClose(file, content, language) ==
    IF file = << >> /\ content # << >> /\ language # << >>
    THEN InferFilePath(language, content)
    ELSE file

(***************************************************************************)
(* Inputs the model draws from.                                            *)
(***************************************************************************)
PathF == <<"f">>
PathG == <<"g">>
PathRsh == <<"r", ".", "s", "h">>
PathUp == <<".", ".", "/", "f">>
PathTrailingUp == <<"a", "/", "a", "/", ".", ".">>
PathUnderF == <<"f", "/", "x">>
PathDeep == <<"d", "/", "f">>

\* every file path of at most MaxPathLen characters over PathChars, and
\* paths that exercise the type rules
PathChars == { "/", ".", "a", "\\" }

ExtraPaths ==
    { PathF, PathG, PathRsh, PathUp, PathTrailingUp, PathUnderF, PathDeep,
      <<"t", "e", "m", "p", "_", "a">>, <<"a", ".", "t", "m", "p">>,
      <<"/", "w", "/", "s", "/", "f">>, <<".", ".", "/", "s", "/", "f">>,
      <<"m", "a", "i", "n", ".", "p", "y">> }

PathUniverse == (BoundedSeqs(PathChars, MaxPathLen) \ { << >> }) \cup ExtraPaths

Languages == { LangPy, LangEdit, LangSh }

ContentChars == { "A", "x", Nl }

ContentUniverse ==
    BoundedSeqs(ContentChars, MaxContentLen)
      \cup { <<"A", "x", "A", "x", "A">>,
             <<"A", "x", "A", "x", "A", Nl>>,
             <<"A", "x", "A", "x", "A", Nl, Nl>> }

MarkSearch == <<"S", "E", "A", "R", "C", "H", ":">>
MarkReplace == <<"R", "E", "P", "L", "A", "C", "E", ":">>

\* text of an edit block made of one SEARCH section and one REPLACE section
MkEdit(s, r) == MarkSearch \o << Nl >> \o s \o << Nl >> \o MarkReplace
                  \o << Nl >> \o r

SearchTexts == { << >>, <<"A">>, <<"x">>, <<"A", "x">>, <<"A", Nl>>, <<"B">> }
ReplaceTexts == { << >>, <<"B">>, <<"A", "A">>, <<"B", Nl>> }

\* text of an edit block made of two SEARCH/REPLACE pairs
TwoPairs(s1, r1, s2, r2) == MkEdit(s1, r1) \o << Nl >> \o MkEdit(s2, r2)

PairSearchTexts == { <<"A">>, <<"x">> }
PairReplaceTexts == { <<"B">>, <<"A", "A">> }

EditContents ==
    { MkEdit(s, r) : s \in SearchTexts, r \in ReplaceTexts }
      \cup { TwoPairs(s1, r1, s2, r2) : s1 \in PairSearchTexts,
               r1 \in PairReplaceTexts, s2 \in PairSearchTexts,
               r2 \in PairReplaceTexts }
      \cup { MkEdit(<<"A">>, <<"B">>) \o << Nl >>,
             <<"A">>,
             <<" ", "s", "e", "a", "r", "c", "h", ":", " ", Nl, "A", Nl,
               "R", "e", "p", "l", "a", "c", "e", ":", Nl, "B">> }

\* lines of the blocks a response is made of
OpenLine(lang, path) == Fence \o lang \o <<" ">> \o path

WriteBlock(lang, path) == << OpenLine(lang, path), <<"x">>, Fence >>

EditBlock(path) ==
    << OpenLine(LangEdit, path), MarkSearch, <<"A">>, MarkReplace, <<"B">>,
       Fence >>

Prose == << <<"h", "i">> >>

\* a block for g whose content holds a fenced example of its own
NestedBlock ==
    << OpenLine(LangPy, PathG), <<"A">>, Fence \o LangPy, <<"x">>, Fence >>

\* blocks without a file path: a shell block, an edit block and a block
\* without a language
PathlessBlocks ==
    << Fence \o LangSh, <<"x">>, Fence, Fence \o LangEdit, <<"x">>, Fence,
       Fence, <<"x">>, Fence >>

CandidateBlocks ==
    { WriteBlock(LangPy, PathF), EditBlock(PathF), WriteBlock(LangPy, PathUp),
      EditBlock(PathG), WriteBlock(LangSh, PathRsh), EditBlock(PathRsh),
      WriteBlock(LangPy, PathTrailingUp), WriteBlock(LangPy, PathUnderF),
      << Fence \o LangPy, <<"x">>, Fence >>, Prose, NestedBlock,
      PathlessBlocks }

RECURSIVE ResponsesOf(_)
ResponsesOf(n) ==
    IF n = 0 THEN { << >> }
    ELSE { b \o r : b \in CandidateBlocks, r \in ResponsesOf(n - 1) }

\* response texts, as the lines the extraction loop reads
Responses == UNION { ResponsesOf(n) : n \in 1..MaxBlocks }
ReformatResponses == UNION { ResponsesOf(n) : n \in 1..MaxReformatBlocks }

\* working trees the process can start in; the tree equals the commit
InitialTrees ==
    { << >>,
      (<<PathF>> :> File(<<"A", "x", "A", "x", "A", Nl>>)),
      (<<PathF>> :> File(<<"A", "x", "A", "x", "A", Nl>>))
        @@ (<<PathRsh>> :> HugeFile(<<"A">>)) }

ResponseFile == "temp_ai_response_N.md"

(***************************************************************************)
(* Prerequisite validation: validate_all_prerequisites.                    *)
(*   The environment of a run, as far as the checks read it:               *)
(*     key        OPENROUTER_API_KEY: its length (0 when unset) and        *)
(*                whether it is made of sk-or- and characters of           *)
(*                [a-zA-Z0-9_-]                                            *)
(*     cooldown   an attempts file of this pid younger than the cooldown   *)
(*     key_probe  HTTP status of the key probe (0 for curl's 000)          *)
(*     token      GITHUB_TOKEN: unset, set without a gh?_ prefix, standard *)
(*     token_probe HTTP status of the token probe                          *)
(*     dns        nslookup works                                           *)
(*     missing    the tool of bash git curl jq that is not installed       *)
(*     gh         the GitHub CLI: absent, installed, authenticated         *)
(*   HOME, PATH and USER are set; CI variables come with GITHUB_ACTIONS.   *)
(***************************************************************************)
VALIDATION_SUCCESS == 0
VALIDATION_CRITICAL_FAILURE == 1
VALIDATION_WARNING == 2

\* ^sk-or-[a-zA-Z0-9_-]{32,}$ : six characters of prefix, 32 or more of body
KeyPrefixLen == 6
MinKeyBodyLen == 32
\* [[ ${#api_key} -lt 40 ]]
ExpectedKeyLen == 40

KeyLens == { 0, KeyPrefixLen + MinKeyBodyLen - 1, KeyPrefixLen + MinKeyBodyLen,
             ExpectedKeyLen }
Keys == [len : KeyLens, shaped : BOOLEAN]

KeyMissing(key) == key.len = 0
KeyFormatOk(key) ==
    key.shaped /\ key.len >= KeyPrefixLen + MinKeyBodyLen

KeyProbes == { 200, 400, 401, 403, 429, 0 }
TokenProbes == { 200, 401, 403, 0 }
RequiredTools == { "bash", "git", "curl", "jq" }

Environments ==
    [ key : Keys, cooldown : BOOLEAN, key_probe : KeyProbes,
      token : { "unset", "odd", "standard" }, token_probe : TokenProbes,
      dns : BOOLEAN, missing : { "none", "git", "curl", "jq" },
      gh : { "absent", "installed", "authenticated" } ]

\* entries added to VALIDATION_ERRORS and VALIDATION_WARNINGS by a check
Recorded(e, w) == [errors |-> e, warnings |-> w]
Sum(a, b) == Recorded(a.errors + b.errors, a.warnings + b.warnings)

HasCurl(env) == env.missing # "curl"

\* local validation_cooldown=60  # seconds
validation_cooldown == 60

\* the rate limiting test: an attempts file of this pid exists and the time
\* in it is less than the cooldown ago
RateLimited(last_attempt, current_time) ==
    /\ last_attempt # None
    /\ current_time - last_attempt.time < validation_cooldown

\* the call reaches the curl request
SendsProbe(env) ==
    /\ ~KeyMissing(env.key)
    /\ KeyFormatOk(env.key)
    /\ ~env.cooldown
    /\ HasCurl(env)

\* validate_openrouter_api_key
validate_openrouter_api_key(env) ==
    IF KeyMissing(env.key) THEN Recorded(5, 0)
    ELSE IF ~KeyFormatOk(env.key) THEN Recorded(4, 0)
    ELSE
      LET short == IF env.key.len < ExpectedKeyLen
                   THEN Recorded(0, 3) ELSE Recorded(0, 0)
          live ==
            IF env.cooldown THEN Recorded(0, 1)
            ELSE IF ~HasCurl(env) THEN Recorded(0, 1)
            ELSE IF env.key_probe \in { 200, 400 } THEN Recorded(0, 0)
            ELSE IF env.key_probe = 401 THEN Recorded(3, 0)
            ELSE IF env.key_probe = 429 THEN Recorded(0, 2)
            ELSE IF env.key_probe = 403 THEN Recorded(2, 0)
            ELSE Recorded(0, 2)
      IN Sum(short, live)

\* validate_github_token
validate_github_token(env, gha) ==
    IF env.token = "unset" THEN Recorded(0, 1)
    ELSE
      LET format == IF env.token = "odd"
                    THEN Recorded(0, 1) ELSE Recorded(0, 0)
          live ==
            IF ~HasCurl(env) THEN Recorded(0, 0)
            ELSE IF env.token_probe = 200 THEN Recorded(0, 0)
            ELSE IF env.token_probe = 401 THEN Recorded(1, 0)
            ELSE IF env.token_probe = 403
                 THEN IF gha THEN Recorded(0, 0) ELSE Recorded(0, 2)
            ELSE Recorded(0, 1)
      IN Sum(format, live)

\* validate_environment_variables "ai_operations" "github_operations"
validate_environment_variables(env, gha) ==
    Sum(validate_openrouter_api_key(env), validate_github_token(env, gha))

\* validate_network_connectivity: endpoints that fail are only counted
validate_network_connectivity(env) ==
    IF env.dns THEN Recorded(0, 0) ELSE Recorded(1, 0)

\* validate_authentication_credentials
validate_authentication_credentials(env, gha) ==
    LET actions == IF gha /\ env.token = "unset"
                   THEN Recorded(0, 1) ELSE Recorded(0, 0)
        ai == IF KeyMissing(env.key) THEN Recorded(1, 0) ELSE Recorded(0, 0)
        cli == IF env.gh = "installed"
               THEN Recorded(0, 1) ELSE Recorded(0, 0)
    IN Sum(actions, Sum(ai, cli))

\* validate_openrouter_api
validate_openrouter_api(env) ==
    IF KeyMissing(env.key) THEN Recorded(2, 0)
    ELSE IF ~KeyFormatOk(env.key) THEN Recorded(1, 0)
    ELSE Recorded(0, 0)

\* validate_cli_tools: a tool of bash git curl jq that is not found is
\* counted in missing_tools and printed, and nothing is recorded for it
validate_cli_tools(env) == validate_openrouter_api(env)

\* validate_all_prerequisites "ai_operations" "github_operations";
\* validate_system_resources, validate_configuration and
\* validate_permissions record nothing
validate_all_prerequisites(env, gha) ==
    LET all == Sum(validate_environment_variables(env, gha),
               Sum(validate_network_connectivity(env),
               Sum(validate_authentication_credentials(env, gha),
                   validate_cli_tools(env))))
    IN [errors |-> all.errors, warnings |-> all.warnings,
        rc |-> IF all.errors > 0 THEN VALIDATION_CRITICAL_FAILURE
               ELSE IF all.warnings > 0 THEN VALIDATION_WARNING
               ELSE VALIDATION_SUCCESS]

(***************************************************************************)
(* The memory store (lib/ai-memory: /tmp/ai_task_memory) and the parser    *)
(* cache (lib/smart-file-parser.sh: /tmp/file_parser_cache).  Both         *)
(* directories are shared by every process of the machine.  An entry is    *)
(* one file of the directory; a store value m holds the entries by file    *)
(* name, and each process's AI_MEMORY_SESSION_ID ("" when unset).          *)
(***************************************************************************)
MaxClock == 3

\* process ids of the concurrent invocations
Pids == { "101", "102" }

\* "a/b" and "a_b"
PathAB == <<"a", "/", "b">>
PathA_B == <<"a", "_", "b">>
StorePaths == { PathAB, PathA_B }
IssueNumbers == { 7 }

\* contents: one of one line and one of two lines
Texts == { [id |-> "t1", lines |-> 1], [id |-> "t2", lines |-> 2] }

EmptyMemory ==
    [session |-> [p \in Pids |-> ""], sessions |-> << >>, issues |-> << >>,
     files |-> << >>, parser |-> << >>]

\* tr 'from' 'to'
Tr(s, from, to) == [i \in DOMAIN s |-> IF s[i] = from THEN to ELSE s[i]]

\* cache_filename=$(echo "$file_path" | tr '/' '_' | tr ' ' '_')
CacheFilename(file_path) == Tr(Tr(file_path, "/", "_"), " ", "_")

\* stat -c%Y "$file_path" || echo "0"
Mtime(srcs, file_path) ==
    IF file_path \in DOMAIN srcs THEN srcs[file_path].mtime ELSE 0

\* the entry of a directory under a file name, None when there is none
EntryOf(entries, name) ==
    IF name \in DOMAIN entries THEN entries[name] ELSE None

Put(entries, name, entry) ==
    [k \in DOMAIN entries \cup { name } |->
        IF k = name THEN entry ELSE entries[k]]

\* session_id="session_$(date +%s)_$$"
SessionId(now, pid) == "session_" \o ToString(now) \o "_" \o pid

\* "${AI_MEMORY_SESSION_ID:-unknown}"
SessionOrUnknown(m, pid) ==
    IF m.session[pid] = "" THEN "unknown" ELSE m.session[pid]

\* init_memory_system: a new session file, and the id exported
init_memory_system(m, pid, now) ==
    LET session_id == SessionId(now, pid) IN
    [m EXCEPT
       !.sessions = Put(@, session_id,
                        [pid |-> pid, status |-> "active",
                         issues_processed |-> {}, files_cached |-> {}]),
       !.session = [@ EXCEPT ![pid] = session_id]]

\* update_session_issues / update_session_files: nothing without a session
\* or without its file
UpdateSession(m, pid, field, item) ==
    LET id == m.session[pid] IN
    IF id = "" \/ id \notin DOMAIN m.sessions
      THEN m.sessions
      ELSE [m.sessions EXCEPT ![id][field] = @ \cup { item }]

\* save_issue_context: the entry is issues/issue_<number>.json
save_issue_context(m, pid, issue_number, now) ==
    [m EXCEPT
       !.issues = Put(@, issue_number,
                      [issue_number |-> issue_number,
                       timestamp |-> now, status |-> "processing",
                       session_id |-> SessionOrUnknown(m, pid)]),
       !.sessions = UpdateSession(m, pid, "issues_processed", issue_number)]

\* cache_file_content: the entry is files/<cache_filename>.json.  jq -R .
\* turns every line of the content into a JSON string of its own, so an
\* entry with content of more than one line is not a JSON document.
cache_file_content(m, srcs, pid, file_path, content, now) ==
    [m EXCEPT
       !.files = Put(@, CacheFilename(file_path),
                     [file_path |-> file_path, content |-> content,
                      file_mtime |-> Mtime(srcs, file_path),
                      cached_at |-> now,
                      json |-> content.lines = 1,
                      session_id |-> SessionOrUnknown(m, pid)]),
       !.sessions = UpdateSession(m, pid, "files_cached", file_path)]

\* load_issue_context: cat of the entry file as it is
load_issue_context(m, issue_number) ==
    IF issue_number \notin DOMAIN m.issues
      THEN [rc |-> 1, out |-> None]
      ELSE [rc |-> 0, out |-> m.issues[issue_number]]

\* the comparison of load_cached_file_content with a tolerance of a second
CacheExpiredWithTolerance(file_mtime, cached_mtime) ==
    file_mtime > cached_mtime + 1

\* [[ $file_mtime -gt $cached_mtime ]]
CacheExpired(file_mtime, cached_mtime) == file_mtime > cached_mtime

\* cached_mtime=$(jq -r '.file_mtime' "$cache_file" 2>/dev/null || echo "0")
CachedMtime(entry) == IF entry.json THEN entry.file_mtime ELSE 0

\* load_cached_file_content: return status and the text printed
load_cached_file_content(m, srcs, file_path) ==
    LET entry == EntryOf(m.files, CacheFilename(file_path)) IN
    IF entry = None
      THEN [rc |-> 1, out |-> None]
    ELSE IF CacheExpired(Mtime(srcs, file_path), CachedMtime(entry))
      THEN [rc |-> 1, out |-> None]
    ELSE IF ~entry.json
      THEN [rc |-> 2, out |-> None]
    ELSE [rc |-> 0, out |-> entry.content]

\* the structure extract_markdown_structure computes, whatever the file
\* holds: the loop that collects the headers runs in a background
\* subshell, so the variable the function prints and caches is still empty
\* after it
ExtractedStructure == "\n"

\* [[ $cache_mtime -ge $file_mtime ]], cache_mtime the mtime of the cache
\* file itself
ParserCacheValid(cache_mtime, file_mtime) == cache_mtime >= file_mtime

\* extract_markdown_structure: status, text printed, whether the structure
\* was computed, and the parser cache after the call.  The cache key is the
\* md5 of the path, taken as one key per path.
extract_markdown_structure(m, srcs, file_path, now) ==
    LET cached == EntryOf(m.parser, file_path) IN
    IF file_path \notin DOMAIN srcs
      THEN [rc |-> 1, out |-> None, computed |-> FALSE, parser |-> m.parser]
    ELSE IF cached # None
            /\ ParserCacheValid(cached.mtime, Mtime(srcs, file_path))
      THEN [rc |-> 0, out |-> cached.text, computed |-> FALSE,
            parser |-> m.parser]
    ELSE LET structure == ExtractedStructure IN
         [rc |-> 0, out |-> structure, computed |-> TRUE,
          parser |-> Put(m.parser, file_path,
                         [mtime |-> now, text |-> structure])]

\* close_memory_session
close_memory_session(m, pid) ==
    LET id == m.session[pid] IN
    IF id = "" THEN m
    ELSE [m EXCEPT
            !.sessions = IF id \in DOMAIN @
                           THEN [@ EXCEPT ![id].status = "completed"]
                           ELSE @,
            !.session = [@ EXCEPT ![pid] = ""]]

(***************************************************************************)
(* The sanitizer (lib/output-sanitizer.sh): one sed -E script of ordered   *)
(* s/regex/replacement/g commands over each line.  A regular expression    *)
(* is a tree; Ends gives the positions at which a match that starts at     *)
(* one of the positions I can end, and a command replaces, from left to    *)
(* right, the longest match at the leftmost position where there is one.   *)
(***************************************************************************)
UpperLetters == << "A", "B", "C", "D", "E", "F", "G", "H", "I", "J", "K",
      "L", "M", "N", "O", "P", "Q", "R", "S", "T", "U", "V", "W", "X", "Y",
      "Z" >>
LowerLetters == << "a", "b", "c", "d", "e", "f", "g", "h", "i", "j", "k",
      "l", "m", "n", "o", "p", "q", "r", "s", "t", "u", "v", "w", "x", "y",
      "z" >>
Range(s) == { s[i] : i \in DOMAIN s }
Digits == Range(<< "0", "1", "2", "3", "4", "5", "6", "7", "8", "9" >>)
AlNum == Range(UpperLetters) \cup Range(LowerLetters) \cup Digits
SpaceClass == { " ", "\t" }

ToLowerChar(c) ==
    IF c \in Range(UpperLetters)
      THEN LowerLetters[CHOOSE i \in 1..26 : UpperLetters[i] = c]
      ELSE c

\* constructors of regular expressions
Cls(S) == [k |-> "cls", set |-> S, neg |-> FALSE]
NotCls(S) == [k |-> "cls", set |-> S, neg |-> TRUE]
Lit(s) == [k |-> "lit", s |-> s]
Rep(r, min, max) == [k |-> "rep", r |-> r, min |-> min, max |-> max]
Unbounded == -1
Star(r) == Rep(r, 0, Unbounded)
Plus(r) == Rep(r, 1, Unbounded)
Cat(rs) == [k |-> "seq", rs |-> rs]
Alt(rs) == [k |-> "alt", rs |-> rs]
WordBoundary == [k |-> "wb"]
AnyChar == NotCls({})

\* a character matches a character of the pattern; ci is the I flag
SameChar(c, d, ci) == c = d \/ (ci /\ ToLowerChar(c) = ToLowerChar(d))

InClass(c, S, ci) == c \in S \/ (ci /\ \E d \in S : SameChar(c, d, ci))

\* the character before position i is a word character
WordBefore(s, i) ==
    i - 1 >= 1 /\ i - 1 <= Len(s) /\ s[i - 1] \in AlNum \cup { "_" }

\* the number of characters from position i on that are in the class
ClassRun(re, s, i, ci) ==
    CHOOSE n \in 0..(Len(s) + 1 - i) :
      /\ \A j \in i..(i + n - 1) : InClass(s[j], re.set, ci) # re.neg
      /\ i + n <= Len(s) => InClass(s[i + n], re.set, ci) = re.neg

\* the repetition of a class from position i: any number of characters of
\* the run between min and max
EndsRun(re, s, i, ci) ==
    LET n == ClassRun(re.r, s, i, ci)
        most == IF re.max = Unbounded \/ re.max > n THEN n ELSE re.max
    IN  { i + k : k \in re.min..most }

RECURSIVE Ends(_, _, _, _)
RECURSIVE EndsSeq(_, _, _, _, _)
RECURSIVE EndsRep(_, _, _, _, _, _)
Ends(re, s, I, ci) ==
    CASE re.k = "cls" ->
           { i + 1 : i \in { j \in I : /\ j <= Len(s)
                                       /\ InClass(s[j], re.set,
                                             ci) # re.neg } }
      [] re.k = "lit" ->
           { i + Len(re.s) :
               i \in { j \in I :
                         /\ j + Len(re.s) - 1 <= Len(s)
                         /\ \A n \in 1..Len(re.s) :
                              SameChar(s[j + n - 1], re.s[n], ci) } }
      [] re.k = "seq" -> EndsSeq(re.rs, 1, s, I, ci)
      [] re.k = "alt" -> UNION { Ends(re.rs[n], s, I,
            ci) : n \in DOMAIN re.rs }
      [] re.k = "rep" ->
           IF re.r.k = "cls" THEN UNION { EndsRun(re, s, i, ci) : i \in I }
           ELSE EndsRep(re, 0, s, I, {}, ci)
      [] re.k = "wb" -> { i \in I : WordBefore(s, i) # WordBefore(s, i + 1) }

EndsSeq(rs, n, s, I, ci) ==
    IF n > Len(rs) THEN I
    ELSE EndsSeq(rs, n + 1, s, Ends(rs[n], s, I, ci), ci)

\* cur: the positions reached after exactly n repetitions
EndsRep(re, n, s, cur, acc, ci) ==
    LET enough == n >= re.min
        reached == IF enough THEN acc \cup cur ELSE acc
        fresh == IF enough THEN cur \ acc ELSE cur
    IN  IF fresh = {} \/ n = re.max
          THEN reached
          ELSE EndsRep(re, n + 1, s, Ends(re.r, s, fresh, ci), reached, ci)

MaxOf(S) == CHOOSE x \in S : \A y \in S : y <= x

\* the match of group and rest that starts at i: where the whole match
\* ends (e) and where the group, which \1 stands for, ends (g)
MatchAt(rule, s, i) ==
    LET G == Ends(rule.group, s, { i }, rule.ci)
        E == UNION { Ends(rule.rest, s, { g }, rule.ci) : g \in G }
    IN  IF E = {} THEN [found |-> FALSE]
        ELSE LET e == MaxOf(E) IN
             [found |-> TRUE, e |-> e,
              g |-> MaxOf({ g \in G : e \in Ends(rule.rest, s, { g },
                                                 rule.ci) })]

\* s/(group)rest/\1repl/g from position i on: the text up to the leftmost
\* match is kept, the match is replaced, and the scan goes on behind it
RECURSIVE SubstituteAll(_, _, _, _)
SubstituteAll(rule, s, i, out) ==
    LET starts == { j \in i..Len(s) : MatchAt(rule, s, j).found } IN
    IF starts = {} THEN out \o SubSeq(s, i, Len(s))
    ELSE LET j == CHOOSE x \in starts : \A y \in starts : x <= y
             m == MatchAt(rule, s, j)
         IN  SubstituteAll(rule, s, m.e,
                           out \o SubSeq(s, i, m.g - 1) \o rule.repl)

\* a replacement text in two words
RedactedInWords == << "R", "E", "D", "A", "C", "T", "E", "D", " ", "S", "E",
      "C", "R", "E", "T" >>

\* ***REDACTED***
Redacted == << "*", "*", "*", "R", "E", "D", "A", "C", "T", "E", "D", "*",
      "*", "*" >>
NoGroup == Cat(<< >>)
Spaces == Star(Cls(SpaceClass))
NonSpaces == Plus(NotCls(SpaceClass))
Base64Chars == AlNum \cup { "+", "/" }
BearerChars == AlNum \cup { ".", "_", "-" }

\* s/PREFIX[a-zA-Z0-9]{n}/PREFIX***REDACTED***/g
KeyRule(prefix, n) ==
    [group |-> Lit(prefix), rest |-> Rep(Cls(AlNum), n, n),
     repl |-> Redacted, ci |-> FALSE]

\* s/(NAME)[[:space:]]*=[[:space:]]*[^[:space:]]+/\1=***REDACTED***/g
AssignRule(name) ==
    [group |-> name,
     rest |-> Cat(<< Spaces, Lit(<< "=" >>), Spaces, NonSpaces >>),
     repl |-> << "=" >> \o Redacted, ci |-> FALSE]

UpperName(min, suffix) ==
    Cat(<< Rep(Cls(Range(UpperLetters) \cup { "_" }), min, Unbounded),
           Lit(suffix) >>)

\* the script of sanitize_output and sanitize_stdin, in its order
SanitizeRules ==
    << KeyRule(<< "s", "k", "-" >>, 48),
       KeyRule(<< "g", "h", "p", "_" >>, 36),
       KeyRule(<< "g", "h", "o", "_" >>, 36),
       KeyRule(<< "g", "h", "u", "_" >>, 36),
       KeyRule(<< "g", "h", "s", "_" >>, 36),
       KeyRule(<< "g", "h", "r", "_" >>, 52),
       AssignRule(UpperName(1, << "A", "P", "I", "_", "K", "E", "Y" >>)),
       AssignRule(Lit(<< "O", "P", "E", "N", "R", "O", "U", "T", "E", "R",
             "_", "A", "P", "I", "_", "K", "E", "Y" >>)),
       AssignRule(Lit(<< "G", "I", "T", "H", "U", "B", "_", "T", "O", "K",
             "E", "N" >>)),
       AssignRule(Lit(<< "G", "H", "_", "P", "A", "T" >>)),
       AssignRule(UpperName(0, << "T", "O", "K", "E", "N" >>)),
       AssignRule(UpperName(0, << "S", "E", "C", "R", "E", "T" >>)),
       [group |-> UpperName(0, << "P", "A", "S", "S", "W", "O", "R", "D" >>),
        rest |-> Cat(<< Spaces, Lit(<< "=" >>), Plus(Cls(SpaceClass)),
                        NonSpaces >>),
        repl |-> << "=" >> \o Redacted, ci |-> FALSE],
       [group |-> Alt(<< Lit(<< "t", "o", "k", "e", "n" >>), Lit(<< "p",
             "a", "s", "s", "w", "o", "r", "d" >>),
                         Lit(<< "s", "e", "c", "r", "e", "t" >>),
                               Lit(<< "k", "e", "y" >>) >>),
        rest |-> Cat(<< Spaces, Cls({ ":", "=" }), Spaces, NonSpaces >>),
        repl |-> << "=" >> \o Redacted, ci |-> TRUE],
       [group |-> Cat(<< Lit(<< "B", "e", "a", "r", "e", "r" >>),
             Plus(Cls(SpaceClass)) >>),
        rest |-> Plus(Cls(BearerChars)),
        repl |-> Redacted, ci |-> FALSE],
       [group |-> Cat(<< Lit(<< "A", "u", "t", "h", "o", "r", "i", "z", "a",
             "t", "i", "o", "n", ":" >>), Spaces,
                         Lit(<< "B", "e", "a", "r", "e", "r" >>),
                               Plus(Cls(SpaceClass)) >>),
        rest |-> Plus(Cls(BearerChars)),
        repl |-> Redacted, ci |-> FALSE],
       [group |-> NoGroup,
        rest |-> Cat(<< Lit(<< "e", "y", "J" >>), Plus(Cls(Base64Chars)),
                        Star(Lit(<< "=" >>)), Lit(<< "." >>),
                        Plus(Cls(Base64Chars)), Star(Lit(<< "=" >>)),
                        Lit(<< "." >>),
                        Plus(Cls(Base64Chars \cup { "_", "-" })),
                        Star(Lit(<< "=" >>)) >>),
        repl |-> << "*", "*", "*", "J", "W", "T", "_", "T", "O", "K", "E",
              "N", "_", "R", "E", "D", "A", "C", "T", "E", "D", "*", "*",
              "*" >>, ci |-> FALSE],
       [group |-> Cat(<< WordBoundary, Lit(<< "d", "o", "c", "k", "e",
             "r" >>), Spaces,
                         Lit(<< "l", "o", "g", "i", "n" >>), Spaces,
                               Star(AnyChar),
                         Lit(<< "-", "p" >>), Spaces >>),
        rest |-> NonSpaces,
        repl |-> Redacted, ci |-> FALSE],
       [group |-> NoGroup,
        rest |-> Cat(<< Rep(Cls(Base64Chars), 64, Unbounded),
                        Rep(Lit(<< "=" >>), 0, 2),
                        Rep(Lit(<< "?" >>), 0, 1) >>),
        repl |-> << "*", "*", "*", "B", "A", "S", "E", "6", "4", "_", "R",
              "E", "D", "A", "C", "T", "E", "D", "*", "*", "*" >>,
              ci |-> FALSE] >>

RECURSIVE SedScript(_, _, _)
SedScript(rules, n, line) ==
    IF n > Len(rules) THEN line
    ELSE SedScript(rules, n + 1, SubstituteAll(rules[n], line, 1, << >>))

\* sanitize_stdin: the script over the line read from standard input
sanitize_stdin(line) == SedScript(SanitizeRules, 1, line)

\* sanitize_output: status 1 without an input file, else the output file
sanitize_output(input_exists, line) ==
    IF ~input_exists THEN [rc |-> 1, out |-> None]
    ELSE [rc |-> 0, out |-> SedScript(SanitizeRules, 1, line)]

\* texts that hold a secret: what comes before the secret, and the values
\* the secret can have
Run(c, n) == [i \in 1..n |-> c]
Fills == { "a", "B" }
PlainValues == { Run(c, 7) : c \in Fills }
Base64Values ==
    { Run(c, 3) \o << "+" >> \o Run(c, 3) \o << "/" >> \o Run(c, 2)
        \o << "=", "=" >> : c \in Fills }
KeyValues(n) == { Run(c, n) : c \in Fills } \cup { Run(c,
      n + 2) : c \in Fills }
LongBase64Values ==
    { Run(c, 30) \o << "+" >> \o Run(c, 33) \o pad :
        c \in Fills, pad \in { << >>, << "=", "=" >> } }
AssignedValues == PlainValues \cup Base64Values
SecretTexts ==
    { [before |-> << "s", "k", "-" >>, values |-> KeyValues(48)],
      [before |-> << "g", "h", "p", "_" >>, values |-> KeyValues(36)],
      [before |-> << "g", "h", "s", "_" >>, values |-> KeyValues(36)],
      [before |-> << "O", "P", "E", "N", "R", "O", "U", "T", "E", "R", "_",
            "A", "P", "I", "_", "K", "E", "Y", "=" >>,
            values |-> AssignedValues],
      [before |-> << "e", "x", "p", "o", "r", "t", " ", "G", "I", "T", "H",
            "U", "B", "_", "T", "O", "K", "E", "N", " ", "=", " " >>,
            values |-> AssignedValues],
      [before |-> << "C", "L", "I", "E", "N", "T", "_", "S", "E", "C", "R",
            "E", "T", "=" >>, values |-> AssignedValues],
      [before |-> << "D", "B", "_", "P", "A", "S", "S", "W", "O", "R", "D",
            "=" >>, values |-> AssignedValues],
      [before |-> << "p", "a", "s", "s", "w", "o", "r", "d", ":", " " >>,
            values |-> AssignedValues],
      [before |-> << "A", "u", "t", "h", "o", "r", "i", "z", "a", "t", "i",
            "o", "n", ":", " ", "B", "e", "a", "r", "e", "r", " " >>,
            values |-> AssignedValues],
      [before |-> << "d", "a", "t", "a", " " >>,
            values |-> LongBase64Values] }

(***************************************************************************)
(* The smart file parser (lib/smart-file-parser.sh): the sections of a     *)
(* markdown file that match keywords, and the context built for a file.    *)
(* A file is the sequence of its lines; a line is a sequence of            *)
(* characters.  Lines stay under MAX_LINE_LENGTH, files under              *)
(* MAX_FILE_SIZE and inside the repository, and the loops end before       *)
(* PROCESS_TIMEOUT.                                                        *)
(***************************************************************************)
MaxDocLines == 3

\* [[ "$line" =~ ^(#{1,6})[[:space:]]+(.+)$ ]]
IsHeader(line) ==
    LET h == RunLength(line, { "#" }) IN
    /\ h >= 1
    /\ h <= 6
    /\ Len(line) >= h + 2
    /\ line[h + 1] \in SpaceChars

\* keywords=$(echo "$keywords" | sed 's/[^a-zA-Z0-9 _-]//g')
KeywordChars == AlNum \cup { " ", "_", "-" }
IsKeywordChar(c) == c \in KeywordChars
SanitizeKeywords(keywords) == SelectSeq(keywords, IsKeywordChar)

\* issue_text=$(echo "$issue_text" | sed 's/[^a-zA-Z0-9 _.-]//g')
IsIssueTextChar(c) == c \in KeywordChars \cup { "." }
SanitizeIssueText(issue_text) == SelectSeq(issue_text, IsIssueTextChar)

\* IFS=' ' read -ra keyword_array <<< "$keywords_lower"
IsWord(w) == w # << >>
KeywordArray(keywords_lower) == SelectSeq(Split(keywords_lower, " "), IsWord)

\* while [[ "$temp" == *"$keyword"* ]]; do matches=$((matches + 1));
\* temp="${temp#*$keyword}"; done
RECURSIVE Matches(_, _)
Matches(temp, keyword) ==
    LET i == ScanFrom(temp, keyword, 1) IN
    IF i = 0 THEN 0
    ELSE 1 + Matches(SubSeq(temp, i + Len(keyword), Len(temp)), keyword)

\* the two for loops over keyword_array, from its k-th keyword on
RECURSIVE ScoreFrom(_, _, _, _)
ScoreFrom(section_lower, header_lower, keyword_array, k) ==
    IF k > Len(keyword_array) THEN 0
    ELSE Matches(section_lower, keyword_array[k])
         + (IF Contains(header_lower, keyword_array[k]) THEN 3 ELSE 0)
         + ScoreFrom(section_lower, header_lower, keyword_array, k + 1)

SectionScore(current_section, current_header, keyword_array) ==
    ScoreFrom(LowerCase(current_section), LowerCase(current_header),
              keyword_array, 1)

\* "$line\n" : inside double quotes, a backslash and the letter n
BackslashN == << "\\", "n" >>

NoSections ==
    [current_section |-> << >>, current_header |-> << >>, sections |-> << >>]

\* sections and scores once the section read so far has been scored: it is
\* added when there is one and its score is positive
Scored(st, keyword_array) ==
    LET score == SectionScore(st.current_section, st.current_header,
                              keyword_array) IN
    IF st.current_section # << >> /\ score > 0
      THEN Append(st.sections,
                  [header |-> st.current_header,
                   section |-> st.current_section, score |-> score])
      ELSE st.sections

\* one turn of the while read loop
ScanLine(st, line, keyword_array) ==
    IF IsHeader(line)
      THEN [current_header |-> line,
            current_section |-> line \o BackslashN,
            sections |-> Scored(st, keyword_array)]
      ELSE [st EXCEPT !.current_section = @ \o line \o BackslashN]

RECURSIVE ScanLines(_, _, _)
ScanLines(st, lines, keyword_array) ==
    IF lines = << >> THEN st
    ELSE ScanLines(ScanLine(st, Head(lines), keyword_array), Tail(lines),
                   keyword_array)

\* what the function's shell holds after wait $pid: the loop ran inside
\* { ...; } &, a child process, whose assignments to current_section,
\* current_header, sections and scores end with it
AfterWait(parent, child) == parent

\* the swap of scores[j], scores[j+1] and sections[j], sections[j+1]
Swap(arr, j) == [arr EXCEPT ![j] = arr[j + 1], ![j + 1] = arr[j]]

\* for ((j = 0; j < n - i - 1; j++)), with positions counted from 1
RECURSIVE BubblePass(_, _, _)
BubblePass(arr, j, last) ==
    IF j > last THEN arr
    ELSE BubblePass(IF arr[j].score < arr[j + 1].score
                      THEN Swap(arr, j) ELSE arr,
                    j + 1, last)

\* for ((i = 0; i < n; i++))
RECURSIVE BubbleSort(_, _)
BubbleSort(arr, i) ==
    IF i >= Len(arr) THEN arr
    ELSE BubbleSort(BubblePass(arr, 1, Len(arr) - i - 1), i + 1)

\* the while loop of the shell sort; j as in the code, from 0
RECURSIVE GapInsert(_, _, _, _)
GapInsert(arr, j, gap, temp) ==
    IF j >= gap /\ arr[j - gap + 1].score < temp.score
      THEN GapInsert([arr EXCEPT ![j + 1] = arr[j - gap + 1]],
                     j - gap, gap, temp)
      ELSE [arr EXCEPT ![j + 1] = temp]

\* for ((i = gap; i < n; i++))
RECURSIVE GapPass(_, _, _)
GapPass(arr, i, gap) ==
    IF i >= Len(arr) THEN arr
    ELSE GapPass(GapInsert(arr, i, gap, arr[i + 1]), i + 1, gap)

\* while [[ $gap -gt 0 ]]
RECURSIVE ShellSort(_, _)
ShellSort(arr, gap) ==
    IF gap = 0 THEN arr
    ELSE ShellSort(GapPass(arr, gap, gap), gap \div 2)

\* shell sort for more than ten sections, bubble sort otherwise
SortSections(arr) ==
    IF Len(arr) > 10 THEN ShellSort(arr, Len(arr) \div 2)
    ELSE BubbleSort(arr, 0)

\* the first max_sections sections
TopSections(arr, max_sections) ==
    SubSeq(arr, 1, IF Len(arr) < max_sections THEN Len(arr)
                   ELSE max_sections)

\* find_relevant_sections: status and the sections printed
find_relevant_sections(srcs, file_path, keywords, max_sections) ==
    IF file_path \notin DOMAIN srcs \/ SanitizeKeywords(keywords) = << >>
      THEN [rc |-> 1, out |-> << >>]
    ELSE
      LET keyword_array ==
            KeywordArray(LowerCase(SanitizeKeywords(keywords)))
          child == ScanLines(NoSections, srcs[file_path].lines,
                             keyword_array)
          sections == Scored(AfterWait(NoSections, child), keyword_array)
      IN [rc |-> 0,
          out |-> IF sections = << >> THEN << >>
                  ELSE TopSections(SortSections(sections), max_sections)]

\* file_extension="${file_path##*.}", in lower case
FileExtension(file_path) ==
    LET pieces == Split(file_path, ".") IN LowerCase(pieces[Len(pieces)])

IsMarkdown(file_path) ==
    FileExtension(file_path)
      \in { <<"m", "d">>, <<"m", "a", "r", "k", "d", "o", "w", "n">> }

\* x=$(command): the output without its trailing newlines
Substituted(out) == IF out = "\n" THEN "" ELSE out

\* head -20 "$file_path"
FirstLines(lines) == SubSeq(lines, 1, IF Len(lines) < 20 THEN Len(lines) ELSE 20)

\* generate_smart_file_context for a markdown file or a small file of
\* another type that is not JSON: status, what the context is made of, and
\* the parser cache after the call
generate_smart_file_context(m, srcs, file_path, issue_text, now) ==
    IF file_path \notin DOMAIN srcs
      THEN [rc |-> 1, context |-> None, parser |-> m.parser]
    ELSE IF ~IsMarkdown(file_path)
      THEN [rc |-> 0,
            context |-> [kind |-> "full", lines |-> srcs[file_path].lines],
            parser |-> m.parser]
    ELSE
      LET r == extract_markdown_structure(m, srcs, file_path, now)
          structure == Substituted(r.out)
          relevant_sections ==
            find_relevant_sections(srcs, file_path,
                                   SanitizeIssueText(issue_text), 2).out
      IN [rc |-> 0,
          context |->
            IF structure # ""
              THEN [kind |-> "structure", structure |-> structure,
                    sections |-> TopSections(relevant_sections, 2)]
              ELSE [kind |-> "preview",
                    lines |-> FirstLines(srcs[file_path].lines)],
          parser |-> r.parser]

\* the lines files are made of, and the files
HeaderA == <<"#", " ", "A">>
HeaderC == <<"#", "#", " ", "c">>
LineA == <<"a">>
LineAC == <<"a", " ", "c">>
DocLines == { HeaderA, HeaderC, LineA, LineAC }

RECURSIVE SeqsUpTo(_, _)
SeqsUpTo(S, n) ==
    IF n = 0 THEN { << >> }
    ELSE LET shorter == SeqsUpTo(S, n - 1) IN
         shorter \cup { Append(s, x) : s \in shorter, x \in S }

Docs == SeqsUpTo(DocLines, MaxDocLines)

DocMd == <<"d", ".", "m", "d">>
DocTxt == <<"d", ".", "t">>
ContextPaths == { DocMd, DocTxt }

\* keywords and issue texts
KeywordTexts == { <<"a">>, <<"A", " ", "c">>, <<"z">>, <<"!">> }

(***************************************************************************)
(* The process: execute-ai-task.sh.                                        *)
(***************************************************************************)
envVars == << githubActions, prereq >>
\* state of the operations that are modelled on their own
offVars == << clock, sources, memory, lastStore, writing, attempts,
             lastSanitize >>
sideVars == << io, offVars >>
stableVars == << envVars, sideVars >>
parserVars == << in_code_block, current_file, code_content, block_language,
                 blocks_found, changes_made >>
trapVars == << exitTrap, intTrap, termTrap >>
treeVars == << fs, dirs, committed >>
callVars == << lastValidate, lastCall >>
exitVars == << pc, exitCode, exitPath, cleanupRuns, transient >>

\* locals of implement_code_blocks_from_response at its entry
ParserReset ==
    /\ in_code_block' = FALSE
    /\ current_file' = << >>
    /\ code_content' = << >>
    /\ block_language' = << >>
    /\ blocks_found' = 0
    /\ changes_made' = FALSE

ProcessStart(tree, gha) ==
    /\ githubActions = gha
    /\ prereq = None
    /\ io = None
    /\ clock = 1
    /\ sources = << >>
    /\ memory = EmptyMemory
    /\ lastStore = None
    /\ writing = [p \in Pids |-> None]
    /\ attempts = [p \in Pids |-> None]
    /\ lastSanitize = None
    /\ exitTrap = "none" /\ intTrap = "none" /\ termTrap = "none"
    /\ fs = tree
    /\ dirs = {}
    /\ committed = tree
    /\ transient = {}
    /\ registered = << >>
    /\ response = << >>
    /\ pass = 0
    /\ in_code_block = FALSE
    /\ current_file = << >>
    /\ code_content = << >>
    /\ block_language = << >>
    /\ blocks_found = 0
    /\ changes_made = FALSE
    /\ firstPass = None
    /\ apiCalls = 0
    /\ lastValidate = None
    /\ lastCall = None
    /\ procRc = -1
    /\ emitted = << >>
    /\ exitCode = -1
    /\ exitPath = "none"
    /\ cleanupRuns = 0

\* the process starts in a fresh checkout: the working tree is the commit
Init ==
    /\ pc = "boot"
    /\ \E tree \in InitialTrees, gha \in BOOLEAN : ProcessStart(tree, gha)

\* files the patterns of cleanup_ai_temp_files match in the working directory
PatternFiles == { ResponseFile }

\* cleanup_ai_temp_files: with a registered file the length test of line 74,
\* ${#TEMP_FILES_TO_CLEAN[@]:-0}, is a bad substitution and the function
\* stops there; otherwise every pattern file goes through secure_delete_file,
\* which leaves the file in place when shred did the overwrite
CleanupAborts(reg) == reg # << >>

CleanupLeaves(files, reg, shred) ==
    IF CleanupAborts(reg) \/ shred THEN files ELSE files \ PatternFiles

\* the EXIT trap that runs when the shell exits with status code
RunExitTrap(code, path) ==
    \E shred \in BOOLEAN :
        /\ pc' = "exited"
        /\ exitPath' = path
        /\ cleanupRuns' = IF exitTrap = "cleanup" THEN cleanupRuns + 1
                          ELSE cleanupRuns
        /\ transient' = IF exitTrap = "cleanup"
                        THEN CleanupLeaves(transient, registered, shred)
                        ELSE transient
        /\ exitCode' = IF exitTrap = "cleanup" /\ CleanupAborts(registered)
                       THEN 1 ELSE code

\* handlers installed by setup_traps_if_main
TrapsInstalled(gha) == IF gha THEN "none" ELSE "cleanup"

\* setup_traps_if_main
SetupTrapsIfMain ==
    /\ pc = "boot"
    /\ pc' = "main"
    /\ exitTrap' = TrapsInstalled(githubActions)
    /\ intTrap' = TrapsInstalled(githubActions)
    /\ termTrap' = TrapsInstalled(githubActions)
    /\ UNCHANGED << stableVars, treeVars, transient, registered, response,
                    pass, parserVars, firstPass, apiCalls, callVars, procRc,
                    emitted, exitCode, exitPath, cleanupRuns >>

restOfMain == << sideVars, trapVars, treeVars, registered, response,
                 pass, parserVars, firstPass, apiCalls, callVars, procRc,
                 emitted >>
restOfExit == << envVars, restOfMain >>

\* main: init_memory_system; validate_all_prerequisites || exit 1
PrerequisitesPass(rc) == rc = 0

\* what is kept of the validation: the credential and tools it ran with,
\* the entries it recorded and its return status
Validation(env, r) ==
    [key |-> env.key,
     tool_missing |-> env.missing \in RequiredTools,
     errors |-> r.errors, warnings |-> r.warnings, rc |-> r.rc]

ValidatePrerequisites ==
    /\ pc = "main"
    /\ \E env \in Environments :
         LET r == validate_all_prerequisites(env, githubActions) IN
         /\ prereq' = Validation(env, r)
         /\ IF PrerequisitesPass(r.rc)
            THEN /\ pc' = "prereq_ok"
                 /\ UNCHANGED << exitCode, exitPath, cleanupRuns, transient >>
            ELSE RunExitTrap(1, "prerequisites")
    /\ UNCHANGED << githubActions, restOfMain >>

\* main: issue_data=$(get_issue_details ...) || exit 1; save_issue_context
GetIssueDetails ==
    /\ pc = "prereq_ok"
    /\ \E ok \in BOOLEAN :
         IF ok
         THEN /\ pc' = "issue_ok"
              /\ UNCHANGED << exitCode, exitPath, cleanupRuns, transient >>
         ELSE RunExitTrap(1, "issue")
    /\ UNCHANGED restOfExit

\* main: prompt=$(build_ai_prompt ...); exit 1 when it is over MAX_PROMPT_SIZE
BuildPrompt ==
    /\ pc = "issue_ok"
    /\ \E ok \in BOOLEAN :
         IF ok
         THEN /\ pc' = "prompt_ok"
              /\ UNCHANGED << exitCode, exitPath, cleanupRuns, transient >>
         ELSE RunExitTrap(1, "prompt")
    /\ UNCHANGED restOfExit

\* main: execute_ai_task_with_models "$prompt" response
ExecuteAiTask ==
    /\ pc = "prompt_ok"
    /\ \E ok \in BOOLEAN :
         IF ok
         THEN /\ \E r \in Responses : response' = r
              /\ pc' = "got_response"
         ELSE /\ response' = response
              /\ pc' = "failed"
    /\ UNCHANGED << stableVars, trapVars, treeVars, transient, registered,
                    pass, parserVars, firstPass, apiCalls, callVars, procRc,
                    emitted, exitCode, exitPath, cleanupRuns >>

\* process_ai_response, up to the call of the extraction loop
ProcessAiResponse ==
    /\ pc = "got_response"
    /\ transient' = transient \cup { ResponseFile }
    /\ registered' = Append(registered, ResponseFile)
    /\ pass' = 1
    /\ ParserReset
    /\ pc' = "blocks"
    /\ UNCHANGED << stableVars, trapVars, treeVars, response, firstPass,
                    apiCalls, callVars, procRc, emitted, exitCode, exitPath,
                    cleanupRuns >>

\* Variant in which a block that was not applied ends the loop; C3 does not
\* hold of it.
RemainingOnlyWhenApplied(rest, applied) == IF applied THEN rest ELSE << >>

\* the loop goes on with the next line whatever became of the block
RemainingAfterBlock(rest, applied) == rest

\* git diff --quiet && git diff --cached --quiet && no untracked file
GitDirty(tree, head, files) == tree # head \/ files # {}

\* what is kept of a call of the executor: its arguments, the tree before
\* and after, its return status, whether the caller took it as a change
\* (the caller sets changes_made=true exactly on status 0), and the number
\* of the block it was made for
EditCall(r, tree, file, content) ==
    [op |-> "edit", file_path |-> file, language |-> LangEdit,
     arg |-> content, rc |-> r.rc, search_text |-> r.search_text,
     replace_text |-> r.replace_text, pre |-> tree, post |-> r.fs,
     wrote |-> r.rc = 0, counted |-> r.rc = 0, block |-> blocks_found]

WriteCall(r, tree, file, lang, content) ==
    [op |-> "write", file_path |-> file, language |-> lang,
     arg |-> content, rc |-> r.rc, search_text |-> << >>,
     replace_text |-> << >>, pre |-> tree, post |-> r.fs,
     wrote |-> r.wrote, counted |-> r.rc = 0, block |-> blocks_found]

\* one iteration of the extraction loop on a fence-close line
CloseBlock(rest) ==
    LET file == FilePathAtClose(current_file, code_content, block_language)
        runnable == file # << >> /\ code_content # << >>
        v == validate_file_path_security(file, block_language)
    IN
    /\ in_code_block' = FALSE
    /\ current_file' = << >>
    /\ code_content' = << >>
    /\ block_language' = << >>
    /\ blocks_found' = blocks_found
    /\ IF ~runnable
       THEN /\ response' = rest
            /\ UNCHANGED << fs, dirs, exitTrap, changes_made, callVars >>
       ELSE /\ lastValidate' = [file_path |-> file,
                                language |-> block_language, rc |-> v]
            /\ IF v # 0
               THEN /\ response' = RemainingAfterBlock(rest, FALSE)
                    /\ UNCHANGED << fs, dirs, exitTrap, changes_made,
                                    lastCall >>
               ELSE IF block_language = LangEdit
               THEN LET r == apply_edit_operation(fs, file, code_content) IN
                    /\ fs' = r.fs
                    /\ dirs' = dirs
                    /\ exitTrap' = IF r.trapSet THEN "rm_temp" ELSE exitTrap
                    /\ changes_made' = (changes_made \/ r.rc = 0)
                    /\ response' = RemainingAfterBlock(rest, r.rc = 0)
                    /\ lastCall' = EditCall(r, fs, file, code_content)
               ELSE \E ioOk \in BOOLEAN :
                    LET r == create_or_update_file(fs, dirs, file,
                                                   code_content, ioOk) IN
                    /\ fs' = r.fs
                    /\ dirs' = r.dirs
                    /\ exitTrap' = exitTrap
                    /\ changes_made' = (changes_made \/ r.rc = 0)
                    /\ response' = RemainingAfterBlock(rest, r.wrote)
                    /\ lastCall' = WriteCall(r, fs, file, block_language,
                                              code_content)

\* one iteration of the extraction loop on a fence-open line
OpenBlock(line, rest) ==
    LET h == ParseFenceOpen(line) IN
    /\ in_code_block' = TRUE
    /\ block_language' = h.language
    /\ current_file' = h.file
    /\ code_content' = << >>
    /\ blocks_found' = blocks_found + 1
    /\ response' = rest
    /\ UNCHANGED << fs, dirs, exitTrap, changes_made, callVars >>

\* one iteration of the extraction loop on any other line
CollectLine(line, rest) ==
    /\ code_content' = IF in_code_block THEN code_content \o line \o << Nl >>
                       ELSE code_content
    /\ response' = rest
    /\ UNCHANGED << in_code_block, current_file, block_language, blocks_found,
                    changes_made, fs, dirs, exitTrap, callVars >>

\* implement_code_blocks_from_response: the body of the while loop
ReadLine ==
    /\ pc = "blocks"
    /\ response # << >>
    /\ LET line == Head(response)
           rest == Tail(response)
       IN IF IsBareFence(line) /\ in_code_block THEN CloseBlock(rest)
          ELSE IF IsFenceOpen(line) THEN OpenBlock(line, rest)
          ELSE CollectLine(line, rest)
    /\ UNCHANGED << pc, stableVars, intTrap, termTrap, committed, transient,
                    registered, pass, firstPass, apiCalls, procRc, emitted,
                    exitCode, exitPath, cleanupRuns >>

\* Variant that re-submits whatever the first pass returned; C5 does not hold
\* of it.
ReformatAlways(rc) == TRUE

\* process_ai_response: the reformat branch is taken when the extraction
\* loop returned non-zero
ReformatWanted(rc) == rc # 0

\* implement_code_blocks_from_response: after the loop, return 0 when a
\* change was made and 1 otherwise; the caller's branch on the status
EndPass ==
    /\ pc = "blocks"
    /\ response = << >>
    /\ LET rc == IF changes_made THEN 0 ELSE 1 IN
       IF pass = 1
       THEN /\ firstPass' = [blocks |-> blocks_found, changed |-> changes_made]
            /\ pc' = IF ReformatWanted(rc) THEN "reformat" ELSE "finish"
       ELSE /\ firstPass' = firstPass
            /\ pc' = "finish"
    /\ UNCHANGED << stableVars, trapVars, treeVars, transient, registered,
                    response, pass, parserVars, apiCalls, callVars, procRc,
                    emitted, exitCode, exitPath, cleanupRuns >>

\* process_text_based_response: one call of call_openrouter_api with the
\* extraction prompt; its answer, when it is text, goes through the loop
ProcessTextBasedResponse ==
    /\ pc = "reformat"
    /\ apiCalls' = apiCalls + 1
    /\ \E outcome \in { "error", "no_changes", "text" } :
         IF outcome = "text"
         THEN /\ \E r \in ReformatResponses : response' = r
              /\ pass' = 2
              /\ ParserReset
              /\ pc' = "blocks"
         ELSE /\ pc' = "finish"
              /\ UNCHANGED << response, pass, parserVars >>
    /\ UNCHANGED << stableVars, trapVars, treeVars, transient, registered,
                    firstPass, callVars, procRc, emitted, exitCode, exitPath,
                    cleanupRuns >>

\* process_ai_response: remove the response file, then report by git status
FinishProcessing ==
    /\ pc = "finish"
    /\ transient' = transient \ { ResponseFile }
    /\ procRc' = IF GitDirty(fs, committed, transient') THEN 0 ELSE 1
    /\ pc' = "processed"
    /\ UNCHANGED << stableVars, trapVars, treeVars, registered, response,
                    pass, parserVars, firstPass, apiCalls, callVars, emitted,
                    exitCode, exitPath, cleanupRuns >>

\* main: the then-branch of  if process_ai_response ...
ProcessSucceeded ==
    /\ pc = "processed"
    /\ procRc = 0
    /\ pc' = "emit"
    /\ UNCHANGED << stableVars, trapVars, treeVars, transient, registered,
                    response, pass, parserVars, firstPass, apiCalls, callVars,
                    procRc, emitted, exitCode, exitPath, cleanupRuns >>

\* main: handle_ai_execution_failure "$issue_number" is a simple command
\* that returns 1, so under set -e the shell exits there with status 1
HandleAiExecutionFailure ==
    /\ \/ pc = "failed"
       \/ pc = "processed" /\ procRc # 0
    /\ RunExitTrap(1, "ai_failure")
    /\ UNCHANGED restOfExit

\* main: echo "has_changes=..." >> "$GITHUB_OUTPUT"
EmitHasChanges ==
    /\ pc = "emit"
    /\ emitted' = Append(emitted, GitDirty(fs, committed, transient))
    /\ pc' = "close"
    /\ UNCHANGED << stableVars, trapVars, treeVars, transient, registered,
                    response, pass, parserVars, firstPass, apiCalls, callVars,
                    procRc, exitCode, exitPath, cleanupRuns >>

\* main: close_memory_session; exit $overall_exit_code
CloseAndExit ==
    /\ pc = "close"
    /\ RunExitTrap(0, "normal")
    /\ UNCHANGED restOfExit

Running == pc \notin { "boot", "exited", "idle" }

\* a signal reaches the shell.  With the handler of setup_standard_traps the
\* trap command starts with an echo of $script_name, which is unset there:
\* under set -u the shell exits with status 1 at that expansion.  Without a
\* handler the shell dies of the signal.  Both ways the EXIT trap runs.
Signal(trap, status, name) ==
    /\ Running
    /\ RunExitTrap(IF trap = "cleanup" THEN 1 ELSE status, name)
    /\ UNCHANGED restOfExit

SigInt == Signal(intTrap, 130, "SIGINT")

SigTerm == Signal(termTrap, 143, "SIGTERM")

Next ==
    \/ SetupTrapsIfMain
    \/ ValidatePrerequisites
    \/ GetIssueDetails
    \/ BuildPrompt
    \/ ExecuteAiTask
    \/ ProcessAiResponse
    \/ ReadLine
    \/ EndPass
    \/ ProcessTextBasedResponse
    \/ FinishProcessing
    \/ ProcessSucceeded
    \/ HandleAiExecutionFailure
    \/ EmitHasChanges
    \/ CloseAndExit
    \/ SigInt
    \/ SigTerm

Spec == Init /\ [][Next]_vars

(***************************************************************************)
(* validate_file_path_security on its own, over every path of PathUniverse *)
(***************************************************************************)
InitPath ==
    /\ pc = "idle"
    /\ ProcessStart(<< >>, FALSE)

ValidatePath ==
    /\ pc = "idle"
    /\ lastValidate = None
    /\ \E p \in PathUniverse, lang \in Languages :
         lastValidate' = [file_path |-> p, language |-> lang,
                          rc |-> validate_file_path_security(p, lang)]
    /\ UNCHANGED << pc, stableVars, trapVars, treeVars, transient,
                    registered, response, pass, parserVars, firstPass,
                    apiCalls, lastCall, procRc, emitted, exitCode, exitPath,
                    cleanupRuns >>

NextPath == ValidatePath

SpecPath == InitPath /\ [][NextPath]_vars

(***************************************************************************)
(* The two file operations on their own: one call on a tree that holds     *)
(* any content of ContentUniverse in f.                                    *)
(***************************************************************************)
FileOpsTrees ==
    { << >> }
      \cup { (<<PathF>> :> File(c)) : c \in ContentUniverse }
      \cup { (<<PathF>> :> File(<<"A", Nl, "x", Nl>>)) }
      \cup { (<<PathF>> :> HugeFile(<<"A">>)) }

\* paths the validator accepts
DirectPaths == { PathF, PathG, PathUnderF, PathDeep }

InitFileOps ==
    /\ pc = "fileops"
    /\ \E tree \in FileOpsTrees : ProcessStart(tree, FALSE)

DirectWrite ==
    /\ pc = "fileops"
    /\ lastCall = None
    /\ \E p \in DirectPaths, c \in ContentUniverse, ioOk \in BOOLEAN :
         LET r == create_or_update_file(fs, dirs, p, c, ioOk) IN
         /\ fs' = r.fs
         /\ dirs' = r.dirs
         /\ lastCall' = WriteCall(r, fs, p, LangPy, c)
    /\ UNCHANGED << pc, stableVars, trapVars, committed, transient,
                    registered, response, pass, parserVars, firstPass,
                    apiCalls, lastValidate, procRc, emitted, exitCode,
                    exitPath, cleanupRuns >>

DirectEdit ==
    /\ pc = "fileops"
    /\ lastCall = None
    /\ \E p \in DirectPaths, c \in EditContents :
         LET r == apply_edit_operation(fs, p, c) IN
         /\ fs' = r.fs
         /\ exitTrap' = IF r.trapSet THEN "rm_temp" ELSE exitTrap
         /\ lastCall' = EditCall(r, fs, p, c)
    /\ UNCHANGED << pc, stableVars, intTrap, termTrap, dirs, committed,
                    transient, registered, response, pass, parserVars,
                    firstPass, apiCalls, lastValidate, procRc, emitted,
                    exitCode, exitPath, cleanupRuns >>

NextFileOps == DirectWrite \/ DirectEdit

SpecFileOps == InitFileOps /\ [][NextFileOps]_vars

(***************************************************************************)
(* The two file operations system call by system call, in a process that   *)
(* can be killed or meet a write error between any two of them.            *)
(*   create_or_update_file:  printf '%s\n' "$content" > "$file_path"       *)
(*     the redirection opens the target with O_CREAT|O_TRUNC, then the     *)
(*     data reaches the file in one or more write calls                    *)
(*   apply_edit_operation:   echo "$file_content" > "$temp_file";          *)
(*                           mv "$temp_file" "$file_path"                  *)
(*     mktemp puts the temp file in ${TMPDIR:-/tmp}; mv renames it over    *)
(*     the target when both are on one filesystem, and otherwise removes   *)
(*     the target and copies the data into a new file                      *)
(***************************************************************************)
\* everything but the working tree, the position and the operation
besideSteps == << envVars, offVars, trapVars, committed, transient, registered,
                  response, pass, parserVars, firstPass, apiCalls, callVars,
                  procRc, emitted, exitCode, exitPath, cleanupRuns >>

InitSteps ==
    /\ pc = "steps"
    /\ \E tree \in FileOpsTrees : ProcessStart(tree, FALSE)

\* the file the target was before the operation, None when there was none
Before(f, target) == IF target \in DOMAIN f THEN f[target] ELSE None

Truncated(f, target) ==
    [q \in DOMAIN f \cup { target } |->
        IF q = target THEN File(<< >>) ELSE f[q]]

Appended(f, target, chunk) ==
    [f EXCEPT ![target] = File(f[target].content \o chunk)]

\* create_or_update_file up to the redirection: the target is opened and
\* truncated, nothing is written yet
WriteRedirect ==
    /\ pc = "steps"
    /\ io = None
    /\ \E p \in DirectPaths, c \in ContentUniverse :
         LET r == create_or_update_file(fs, dirs, p, c, TRUE) IN
         /\ dirs' = r.dirs
         /\ IF r.wrote
            THEN /\ fs' = Truncated(fs, TargetOf(p))
                 /\ io' = [op |-> "write", target |-> TargetOf(p),
                           pre |-> Before(fs, TargetOf(p)),
                           data |-> WrittenContent(c), written |-> 0]
                 /\ pc' = "writing"
            ELSE /\ fs' = fs
                 /\ io' = [op |-> "write", target |-> TargetOf(p),
                           pre |-> Before(fs, TargetOf(p)),
                           data |-> << >>, written |-> 0]
                 /\ pc' = "returned"
    /\ UNCHANGED besideSteps

\* apply_edit_operation up to the mv: the checks, and the new content
\* written to the temp file
EditToTemp ==
    /\ pc = "steps"
    /\ io = None
    /\ \E p \in DirectPaths, c \in EditContents :
         LET r == apply_edit_operation(fs, p, c) IN
         /\ io' = [op |-> "edit", target |-> TargetOf(p),
                   pre |-> Before(fs, TargetOf(p)),
                   data |-> IF r.rc = 0 THEN r.fs[TargetOf(p)].content
                            ELSE << >>,
                   written |-> 0]
         /\ pc' = IF r.rc = 0 THEN "moving" ELSE "returned"
    /\ UNCHANGED << fs, dirs, besideSteps >>

\* mv "$temp_file" "$file_path": rename(2) on one filesystem; across
\* filesystems the target is removed and created anew, then copied into
EditMove ==
    /\ pc = "moving"
    /\ \E same_filesystem \in BOOLEAN :
         IF same_filesystem
         THEN /\ fs' = [fs EXCEPT ![io.target] = File(io.data)]
              /\ io' = [io EXCEPT !.written = Len(io.data)]
              /\ pc' = "returned"
         ELSE /\ fs' = Truncated(fs, io.target)
              /\ io' = io
              /\ pc' = "writing"
    /\ UNCHANGED << dirs, besideSteps >>

\* one write call: it takes some or all of the data that is left
WriteData ==
    /\ pc = "writing"
    /\ io.written < Len(io.data)
    /\ \E n \in 1..(Len(io.data) - io.written) :
         /\ fs' = Appended(fs, io.target,
                           SubSeq(io.data, io.written + 1, io.written + n))
         /\ io' = [io EXCEPT !.written = io.written + n]
    /\ UNCHANGED << pc, dirs, besideSteps >>

\* the data is out: the function returns
WriteReturn ==
    /\ pc = "writing"
    /\ io.written = Len(io.data)
    /\ pc' = "returned"
    /\ UNCHANGED << fs, dirs, io, besideSteps >>

\* a write call fails (no space left, quota, I/O error): printf or mv
\* reports it and the function is left with what was written so far
WriteError ==
    /\ pc = "writing"
    /\ io.written < Len(io.data)
    /\ pc' = "failed"
    /\ UNCHANGED << fs, dirs, io, besideSteps >>

\* the process is killed while the operation is under way
Kill ==
    /\ pc \in { "writing", "moving" }
    /\ pc' = "killed"
    /\ UNCHANGED << fs, dirs, io, besideSteps >>

NextSteps ==
    \/ WriteRedirect
    \/ EditToTemp
    \/ EditMove
    \/ WriteData
    \/ WriteReturn
    \/ WriteError
    \/ Kill

SpecSteps == InitSteps /\ [][NextSteps]_vars

(***************************************************************************)
(* The memory store and the parser cache on their own; each call of a      *)
(* store function is one step.                                             *)
(*   SpecStore: two concurrent invocations (processes of Pids) that share  *)
(*     the store directory, open sessions and write entries;               *)
(*   SpecCache: source files are written while the file cache and the      *)
(*     parser cache hold entries for them, and lookups are made.           *)
(***************************************************************************)
outsideStore == << envVars, io, lastSanitize, trapVars, treeVars, transient,
                   registered, response, pass, parserVars, firstPass,
                   apiCalls, callVars, procRc, emitted, exitCode, exitPath,
                   cleanupRuns >>
besideStore == << outsideStore, writing, attempts >>

restOfProbe == << sources, memory, lastStore, writing, lastSanitize,
                 trapVars, treeVars, transient, registered, response, pass,
                 parserVars, firstPass, apiCalls, callVars, procRc, emitted,
                 exitCode, exitPath, cleanupRuns >>

InitStore ==
    /\ pc = "store"
    /\ ProcessStart(<< >>, FALSE)

InitCache ==
    /\ pc = "cache"
    /\ ProcessStart(<< >>, FALSE)

InStore == pc \in { "store", "cache" }

\* the session id of the entry under a name, "" when there is no entry
WriterOf(entries, name) ==
    IF name \in DOMAIN entries THEN entries[name].session_id ELSE ""

\* a second passes
Tick ==
    /\ pc = "cache"
    /\ clock < MaxClock
    /\ clock' = clock + 1
    /\ UNCHANGED << pc, sources, memory, lastStore, besideStore >>

\* somebody writes a source file
ModifySource ==
    /\ pc = "cache"
    /\ \E file_path \in StorePaths :
         sources' = Put(sources, file_path, [mtime |-> clock])
    /\ UNCHANGED << pc, clock, memory, lastStore, besideStore >>

\* main of a new invocation: init_memory_system
InitMemorySystem ==
    /\ pc \in { "store", "writes" }
    /\ \E pid \in Pids :
         /\ memory.session[pid] = ""
         /\ \A id \in DOMAIN memory.sessions : memory.sessions[id].pid # pid
         /\ memory' = init_memory_system(memory, pid, clock)
         /\ lastStore' = [fn |-> "init_memory_system", pid |-> pid,
                          session |-> SessionId(clock, pid),
                          existed |-> SessionId(clock, pid)
                                        \in DOMAIN memory.sessions]
    /\ UNCHANGED << pc, clock, sources, besideStore >>

SaveIssueContext ==
    /\ pc = "store"
    /\ \E pid \in Pids, issue_number \in IssueNumbers :
         \* main calls init_memory_system first
         /\ memory.session[pid] # ""
         /\ memory' = save_issue_context(memory, pid, issue_number, clock)
         /\ lastStore' = [fn |-> "save_issue_context", pid |-> pid,
                          session |-> memory.session[pid],
                          name |-> issue_number,
                          replaced |-> WriterOf(memory.issues, issue_number)]
    /\ UNCHANGED << pc, clock, sources, besideStore >>

CacheFileContent ==
    /\ InStore
    /\ \E pid \in Pids, file_path \in StorePaths, content \in Texts :
         \* an invocation has called init_memory_system first
         /\ pc = "store" => memory.session[pid] # ""
         /\ memory' = cache_file_content(memory, sources, pid, file_path,
                                         content, clock)
         /\ lastStore' = [fn |-> "cache_file_content", pid |-> pid,
                          session |-> memory.session[pid],
                          name |-> CacheFilename(file_path),
                          replaced |-> WriterOf(memory.files,
                                                CacheFilename(file_path))]
    /\ UNCHANGED << pc, clock, sources, besideStore >>

LoadCachedFileContent ==
    /\ pc = "cache"
    /\ \E file_path \in StorePaths :
         LET r == load_cached_file_content(memory, sources, file_path) IN
         lastStore' = [fn |-> "load_cached_file_content",
                       file_path |-> file_path,
                       entry |-> EntryOf(memory.files,
                                         CacheFilename(file_path)),
                       file_mtime |-> Mtime(sources, file_path),
                       rc |-> r.rc, out |-> r.out]
    /\ UNCHANGED << pc, clock, sources, memory, besideStore >>

ExtractMarkdownStructure ==
    /\ pc = "cache"
    /\ \E file_path \in StorePaths :
         LET r == extract_markdown_structure(memory, sources, file_path,
                                             clock) IN
         /\ memory' = [memory EXCEPT !.parser = r.parser]
         /\ lastStore' = [fn |-> "extract_markdown_structure",
                          file_path |-> file_path,
                          entry |-> EntryOf(memory.parser, file_path),
                          file_mtime |-> Mtime(sources, file_path),
                          rc |-> r.rc, out |-> r.out,
                          computed |-> r.computed]
    /\ UNCHANGED << pc, clock, sources, besideStore >>

CloseMemorySession ==
    /\ pc = "store"
    /\ \E pid \in Pids :
         /\ memory.session[pid] # ""
         /\ memory' = close_memory_session(memory, pid)
         /\ lastStore' = [fn |-> "close_memory_session", pid |-> pid,
                          session |-> memory.session[pid]]
    /\ UNCHANGED << pc, clock, sources, besideStore >>

NextStore ==
    \/ InitMemorySystem
    \/ SaveIssueContext
    \/ CacheFileContent
    \/ CloseMemorySession

SpecStore == InitStore /\ [][NextStore]_vars

(***************************************************************************)
(* SpecWrites: the writes of SpecStore system call by system call, with a  *)
(* reader of the store beside the writers.  cat > "$file" <<EOF opens      *)
(* (and truncates) the entry first; bash expands the here-document, jq     *)
(* substitutions included, after that; cat then writes the text.  Session  *)
(* updates write jq's output to a mktemp file and rename it.               *)
(***************************************************************************)
InitWrites ==
    /\ pc = "writes"
    /\ ProcessStart(<< >>, FALSE)

\* an entry file that was opened for writing and holds nothing yet
EmptyEntry == [truncated |-> TRUE]

\* the process has a session and no write in progress
CanWrite(pid) ==
    /\ memory.session[pid] # ""
    /\ writing[pid] = None

\* save_issue_context, the redirection > "$memory_file"
OpenIssueEntry ==
    /\ pc = "writes"
    /\ \E pid \in Pids, issue_number \in IssueNumbers :
         /\ CanWrite(pid)
         /\ memory' = [memory EXCEPT
                         !.issues = Put(@, issue_number, EmptyEntry)]
         /\ writing' = [writing EXCEPT ![pid] =
                          [fn |-> "save_issue_context",
                           entry |-> save_issue_context(memory, pid,
                                       issue_number, clock)
                                       .issues[issue_number],
                           item |-> issue_number]]
    /\ UNCHANGED << pc, clock, sources, lastStore, attempts, outsideStore >>

\* cache_file_content, the redirection > "$cache_file"
OpenFileEntry ==
    /\ pc = "writes"
    /\ \E pid \in Pids, file_path \in StorePaths, content \in Texts :
         /\ CanWrite(pid)
         /\ memory' = [memory EXCEPT
                         !.files = Put(@, CacheFilename(file_path),
                                       EmptyEntry)]
         /\ writing' = [writing EXCEPT ![pid] =
                          [fn |-> "cache_file_content",
                           entry |-> cache_file_content(memory, sources,
                                       pid, file_path, content, clock)
                                       .files[CacheFilename(file_path)],
                           item |-> file_path]]
    /\ UNCHANGED << pc, clock, sources, lastStore, attempts, outsideStore >>

\* cat writes the expanded here-document into the open entry; jq then
\* writes the updated session into a mktemp file
WriteEntry ==
    /\ pc = "writes"
    /\ \E pid \in Pids :
         /\ writing[pid] # None
         /\ writing[pid].fn \in { "save_issue_context",
                                  "cache_file_content" }
         /\ memory' = [memory EXCEPT
               !.issues = IF writing[pid].fn = "save_issue_context"
                            THEN Put(@, writing[pid].item,
                                     writing[pid].entry)
                            ELSE @,
               !.files = IF writing[pid].fn = "cache_file_content"
                           THEN Put(@, CacheFilename(writing[pid].item),
                                    writing[pid].entry)
                           ELSE @]
         /\ writing' = [writing EXCEPT ![pid] =
                          [fn |-> "update_session",
                           temp_file |->
                             UpdateSession(memory, pid,
                               IF writing[pid].fn = "save_issue_context"
                                 THEN "issues_processed"
                                 ELSE "files_cached",
                               writing[pid].item)[memory.session[pid]]]]
    /\ UNCHANGED << pc, clock, sources, lastStore, attempts, outsideStore >>

\* update_session_issues / update_session_files: mv "$temp_file"
\* "$session_file"
RenameSession ==
    /\ pc = "writes"
    /\ \E pid \in Pids :
         /\ writing[pid] # None
         /\ writing[pid].fn = "update_session"
         /\ memory' = [memory EXCEPT
                         !.sessions[memory.session[pid]] =
                            writing[pid].temp_file]
         /\ writing' = [writing EXCEPT ![pid] = None]
    /\ UNCHANGED << pc, clock, sources, lastStore, attempts, outsideStore >>

\* another process reads an issue entry
LoadIssueContext ==
    /\ pc = "writes"
    /\ \E issue_number \in IssueNumbers :
         LET r == load_issue_context(memory, issue_number) IN
         lastStore' = [fn |-> "load_issue_context", name |-> issue_number,
                       rc |-> r.rc, out |-> r.out]
    /\ UNCHANGED << pc, clock, sources, memory, besideStore >>

NextWrites ==
    \/ InitMemorySystem
    \/ OpenIssueEntry
    \/ OpenFileEntry
    \/ WriteEntry
    \/ RenameSession
    \/ LoadIssueContext

SpecWrites == InitWrites /\ [][NextWrites]_vars

(***************************************************************************)
(* SpecProbe: validate_openrouter_api_key called again and again by the    *)
(* processes of Pids while time passes.  A call that returns has removed   *)
(* its attempts file; a process killed while curl runs leaves it behind.   *)
(***************************************************************************)
InitProbe ==
    /\ pc = "probe"
    /\ ProcessStart(<< >>, FALSE)

\* the latest time SpecProbe lets the clock reach
MaxProbeClock == MaxClock + validation_cooldown

ProbeEnvironments ==
    [ key : Keys, cooldown : BOOLEAN, key_probe : KeyProbes,
      token : { "unset" }, token_probe : { 200 }, dns : { TRUE },
      missing : { "none", "curl" }, gh : { "absent" } ]

\* the environment of a call by pid at the present time
ProbeEnv(env, pid) ==
    [env EXCEPT !.cooldown = RateLimited(attempts[pid], clock)]

\* times of the live probes of each process so far
LiveProbes ==
    IF prereq = None THEN [p \in Pids |-> None] ELSE prereq.last_live

\* a second or the cooldown passes
Wait ==
    /\ pc = "probe"
    /\ \E d \in { 1, validation_cooldown } :
         /\ d = 1 => clock < MaxClock
         /\ clock + d <= MaxProbeClock
         /\ clock' = clock + d
    /\ UNCHANGED << pc, githubActions, prereq, io, attempts, restOfProbe >>

\* a call of validate_openrouter_api_key that returns
ValidateKey ==
    /\ pc = "probe"
    /\ \E pid \in Pids, e \in ProbeEnvironments :
         LET env == ProbeEnv(e, pid) IN
         /\ e.cooldown = env.cooldown
         /\ prereq' = [fn |-> "validate_openrouter_api_key", pid |-> pid,
                       at |-> clock, live |-> SendsProbe(env),
                       previous_live |-> LiveProbes[pid],
                       result |-> validate_openrouter_api_key(env),
                       last_live |-> IF SendsProbe(env)
                                       THEN [LiveProbes EXCEPT
                                               ![pid] = [time |-> clock]]
                                       ELSE LiveProbes]
         \* echo "$(date +%s)" > file; curl; rm -f file
         /\ attempts' = IF SendsProbe(env)
                           THEN [attempts EXCEPT ![pid] = None]
                           ELSE attempts
    /\ UNCHANGED << pc, githubActions, io, clock, restOfProbe >>

\* a call whose process is killed while curl runs: the attempts file stays,
\* and a later process may get the same pid
KilledInProbe ==
    /\ pc = "probe"
    /\ \E pid \in Pids, e \in ProbeEnvironments :
         LET env == ProbeEnv(e, pid) IN
         /\ e.cooldown = env.cooldown
         /\ SendsProbe(env)
         /\ prereq' = [fn |-> "killed", pid |-> pid,
                       at |-> clock, live |-> TRUE,
                       previous_live |-> LiveProbes[pid],
                       result |-> Recorded(0, 0),
                       last_live |-> [LiveProbes EXCEPT
                                       ![pid] = [time |-> clock]]]
         /\ attempts' = [attempts EXCEPT ![pid] = [time |-> clock]]
    /\ UNCHANGED << pc, githubActions, io, clock, restOfProbe >>

NextProbe ==
    \/ Wait
    \/ ValidateKey
    \/ KilledInProbe

SpecProbe == InitProbe /\ [][NextProbe]_vars

(***************************************************************************)
(* SpecContext: the smart file parser on its own.  A file of Docs is       *)
(* written, then sections are looked for in it and contexts are built.     *)
(***************************************************************************)
InitContext ==
    /\ pc = "context"
    /\ ProcessStart(<< >>, FALSE)

\* somebody writes the file
WriteDoc ==
    /\ pc = "context"
    /\ sources = << >>
    /\ \E file_path \in ContextPaths, lines \in Docs :
         sources' = Put(sources, file_path,
                        [mtime |-> clock, lines |-> lines])
    /\ UNCHANGED << pc, clock, memory, lastStore, besideStore >>

FindRelevantSections ==
    /\ pc = "context"
    /\ \E file_path \in ContextPaths, keywords \in KeywordTexts,
          max_sections \in 1..2 :
         LET r == find_relevant_sections(sources, file_path, keywords,
                                         max_sections) IN
         lastStore' = [fn |-> "find_relevant_sections",
                       file_path |-> file_path, keywords |-> keywords,
                       max_sections |-> max_sections,
                       rc |-> r.rc, out |-> r.out]
    /\ UNCHANGED << pc, clock, sources, memory, besideStore >>

GenerateSmartFileContext ==
    /\ pc = "context"
    /\ \E file_path \in ContextPaths, issue_text \in KeywordTexts :
         LET r == generate_smart_file_context(memory, sources, file_path,
                                              issue_text, clock) IN
         /\ memory' = [memory EXCEPT !.parser = r.parser]
         /\ lastStore' = [fn |-> "generate_smart_file_context",
                          file_path |-> file_path,
                          issue_text |-> issue_text,
                          rc |-> r.rc, context |-> r.context]
    /\ UNCHANGED << pc, clock, sources, besideStore >>

NextContext ==
    \/ WriteDoc
    \/ FindRelevantSections
    \/ GenerateSmartFileContext

SpecContext == InitContext /\ [][NextContext]_vars

NextCache ==
    \/ Tick
    \/ ModifySource
    \/ CacheFileContent
    \/ LoadCachedFileContent
    \/ ExtractMarkdownStructure

SpecCache == InitCache /\ [][NextCache]_vars

(***************************************************************************)
(* The sanitizer on its own: one call of sanitize_stdin or                 *)
(* sanitize_output on each of two texts that differ only in the value of   *)
(* the secret they hold.                                                   *)
(***************************************************************************)
besideSanitize == << envVars, io, clock, sources, memory, lastStore, writing,
                     attempts,
                     trapVars, treeVars, transient, registered, response,
                     pass, parserVars, firstPass, apiCalls, callVars, procRc,
                     emitted, exitCode, exitPath, cleanupRuns >>

InitSanitize ==
    /\ pc = "sanitize"
    /\ ProcessStart(<< >>, FALSE)

SanitizeStdin ==
    /\ pc = "sanitize"
    /\ lastSanitize = None
    /\ \E t \in SecretTexts : \E a \in t.values, b \in t.values :
         lastSanitize' = [fn |-> "sanitize_stdin", before |-> t.before,
                          a |-> a, b |-> b, rc |-> 0,
                          out_a |-> sanitize_stdin(t.before \o a),
                          out_b |-> sanitize_stdin(t.before \o b),
                          twice |-> None]
    /\ UNCHANGED << pc, besideSanitize >>

SanitizeOutput ==
    /\ pc = "sanitize"
    /\ lastSanitize = None
    /\ \E t \in SecretTexts, input_exists \in BOOLEAN :
         \E a \in t.values, b \in t.values :
           LET ra == sanitize_output(input_exists, t.before \o a)
               rb == sanitize_output(input_exists, t.before \o b)
           IN  lastSanitize' = [fn |-> "sanitize_output",
                                before |-> t.before, a |-> a, b |-> b,
                                rc |-> ra.rc, out_a |-> ra.out,
                                out_b |-> rb.out, twice |-> None]
    /\ UNCHANGED << pc, besideSanitize >>

\* the sanitized text is sanitized once more
SanitizeAgain ==
    /\ pc = "sanitize"
    /\ lastSanitize # None
    /\ lastSanitize.rc = 0
    /\ lastSanitize.twice = None
    /\ lastSanitize' =
         [lastSanitize EXCEPT !.twice = sanitize_stdin(lastSanitize.out_a)]
    /\ UNCHANGED << pc, besideSanitize >>

NextSanitize == SanitizeStdin \/ SanitizeOutput \/ SanitizeAgain

SpecSanitize == InitSanitize /\ [][NextSanitize]_vars

(***************************************************************************)
(* Properties.                                                             *)
(***************************************************************************)
Validated == lastValidate # None
Called == lastCall # None

\* the path has a parent-directory segment
HasParentSegment(p) ==
    \E i \in 1..Len(Split(p, "/")) : Split(p, "/")[i] = <<".", ".">>

\* C1: every path that contains a ".." segment or starts with "/" is
\* rejected by validate_file_path_security, whatever the block language.
C1_TraversalOrAbsoluteRejected ==
    ( /\ Validated
      /\ \/ HasParentSegment(lastValidate.file_path)
         \/ IsAbsolutePath(lastValidate.file_path) )
    => lastValidate.rc = 1

\* C2: the executor is only ever called with a path that canonicalizes to a
\* location strictly inside the workspace root, and with an executable-style
\* extension only when the block language is edit.
C2_ExecutorPathsSafe ==
    Called =>
      /\ InsideWorkspace(RealpathM(lastCall.file_path))
      /\ MatchesExecutable(lastCall.file_path) => lastCall.language = LangEdit
      /\ lastCall.op = "edit" <=> lastCall.language = LangEdit

\* an edit block naming a file with an executable extension reached
\* apply_edit_operation
C2_Witness ==
    /\ Called
    /\ lastCall.op = "edit"
    /\ MatchesExecutable(lastCall.file_path)

\* the step reads the fence-close line of a block that has a path and content
ClosesRunnableBlock ==
    /\ pc = "blocks"
    /\ response # << >>
    /\ IsBareFence(Head(response))
    /\ in_code_block
    /\ code_content # << >>
    /\ FilePathAtClose(current_file, code_content, block_language) # << >>
    /\ exitPath' = "none"

\* the block of the step was rejected by the validator, or its edit or write
\* did not go through
BlockFailedInStep ==
    \/ lastValidate'.rc # 0
    \/ lastValidate'.rc = 0 /\ (lastCall'.rc # 0 \/ ~lastCall'.wrote)

ZeroBlocksTwice ==
    /\ pc = "exited"
    /\ exitPath \notin { "SIGINT", "SIGTERM" }
    /\ firstPass # None
    /\ firstPass.blocks = 0
    /\ blocks_found = 0

\* C4: a response without fenced blocks yields zero blocks and exactly one
\* reformat re-submission; when the reformatted result has no block either,
\* the task fails and the has_changes value emitted is false.
C4_ZeroBlocksFailsWithFalseSignal ==
    ZeroBlocksTwice =>
      /\ apiCalls = 1
      /\ exitCode # 0
      /\ emitted = << FALSE >>

FirstOccurrenceAt(c, s, i) ==
    /\ IsPrefixAt(s, c, i)
    /\ \A j \in 1..(i - 1) : ~IsPrefixAt(s, c, j)

\* r put in place of the Len(s) characters of c at i
ReplacedAt(c, s, r, i) ==
    SubSeq(c, 1, i - 1) \o r \o SubSeq(c, i + Len(s), Len(c))

\* c without its trailing newlines
WithoutTrailingNls(c) ==
    CHOOSE b \in { SubSeq(c, 1, k) : k \in 0..Len(c) } :
        /\ \A j \in (Len(b) + 1)..Len(c) : c[j] = Nl
        /\ b = << >> \/ b[Len(b)] # Nl

EditSucceeded == Called /\ lastCall.op = "edit" /\ lastCall.rc = 0

OthersUntouched ==
    \A q \in (DOMAIN lastCall.pre \cup DOMAIN lastCall.post)
               \ { TargetOf(lastCall.file_path) } :
        /\ q \in DOMAIN lastCall.pre
        /\ q \in DOMAIN lastCall.post
        /\ lastCall.pre[q] = lastCall.post[q]

\* C6 as claimed: a successful edit replaces exactly the first occurrence of
\* searchText with replaceText and leaves every other character of the file
\* as it was.
C6_FirstOccurrenceOnly ==
    EditSucceeded =>
      LET t == TargetOf(lastCall.file_path)
          c == lastCall.pre[t].content
      IN /\ \E i \in 1..(Len(c) + 1) :
               /\ FirstOccurrenceAt(c, lastCall.search_text, i)
               /\ lastCall.post[t].content =
                    ReplacedAt(c, lastCall.search_text,
                               lastCall.replace_text, i)
         /\ OthersUntouched

\* C6 (amended): a successful edit replaces exactly the first occurrence of
\* searchText with replaceText, never a later or every occurrence, and
\* leaves every other character as it was, except that the trailing
\* newlines of the file are replaced by exactly one newline.
C6_FirstOccurrenceUpToTrailingNewlines ==
    EditSucceeded =>
      LET t == TargetOf(lastCall.file_path)
          c == WithoutTrailingNls(lastCall.pre[t].content)
      IN /\ \E i \in 1..(Len(c) + 1) :
               /\ FirstOccurrenceAt(c, lastCall.search_text, i)
               /\ lastCall.post[t].content =
                    ReplacedAt(c, lastCall.search_text,
                               lastCall.replace_text, i) \o << Nl >>
         /\ OthersUntouched

\* the example: content AxAxA, search A, replace B
C6_Witness ==
    /\ EditSucceeded
    /\ lastCall.pre[TargetOf(lastCall.file_path)].content
         = <<"A", "x", "A", "x", "A">>
    /\ lastCall.search_text = <<"A">>
    /\ lastCall.replace_text = <<"B">>
    /\ lastCall.post[TargetOf(lastCall.file_path)].content
         = <<"B", "x", "A", "x", "A", Nl>>

\* C7: apply_edit_operation reports failure and modifies no file when
\* searchText is empty, the target does not exist, searchText does not occur
\* verbatim in the file, or the file is larger than the size ceiling.
C7_EditFailuresLeaveFilesAlone ==
    ( /\ Called
      /\ lastCall.op = "edit"
      /\ LET t == TargetOf(lastCall.file_path) IN
         \/ lastCall.search_text = << >>
         \/ t \notin DOMAIN lastCall.pre
         \/ ~Contains(lastCall.pre[t].content, lastCall.search_text)
         \/ FileSize(lastCall.pre[t]) > MaxEditFileSize )
    => /\ lastCall.rc # 0
       /\ lastCall.post = lastCall.pre

\* an edit of a file over the ceiling whose search text the file holds
C7_Witness ==
    /\ Called
    /\ lastCall.op = "edit"
    /\ lastCall.search_text # << >>
    /\ TargetOf(lastCall.file_path) \in DOMAIN lastCall.pre
    /\ FileSize(lastCall.pre[TargetOf(lastCall.file_path)]) > MaxEditFileSize
    /\ Contains(lastCall.pre[TargetOf(lastCall.file_path)].content,
                lastCall.search_text)
    /\ lastCall.rc = 1

WriteWentThrough == Called /\ lastCall.op = "write" /\ lastCall.wrote

\* C8: after create_or_update_file(P, C) the file P holds C itself when C
\* ends with a newline and C plus one newline otherwise, whatever P held
\* before, and writing the content read back from P leaves P unchanged.
C8_WriteRoundTrip ==
    WriteWentThrough =>
      LET t == TargetOf(lastCall.file_path)
          C == lastCall.arg
          got == lastCall.post[t].content
      IN /\ got = IF Len(C) > 0 /\ C[Len(C)] = Nl THEN C ELSE C \o << Nl >>
         /\ ~lastCall.post[t].huge
         /\ create_or_update_file(lastCall.post, dirs, lastCall.file_path,
                                  got, TRUE).fs = lastCall.post

\* a write over an existing file of content that does not end with a newline
C8_Witness ==
    /\ WriteWentThrough
    /\ TargetOf(lastCall.file_path) \in DOMAIN lastCall.pre
    /\ lastCall.arg # << >>
    /\ lastCall.arg[Len(lastCall.arg)] # Nl
    /\ lastCall.pre # lastCall.post

\* C9: when the filesystem write of a block fails, the failure is reported
\* for that block, so the block is not counted as a change that was made.
C9_WriteFailureReported ==
    (Called /\ lastCall.op = "write" /\ ~lastCall.wrote)
    => /\ lastCall.rc # 0
       /\ ~lastCall.counted

\* C10: the cleanup routine runs at process exit on every exit path.
C10_CleanupOnEveryExit ==
    pc = "exited" => cleanupRuns >= 1

\* the files cleanup_ai_temp_files is to delete: the registered ones and the
\* ones of the working directory that match a pattern
ToClean ==
    { registered[i] : i \in 1..Len(registered) } \cup PatternFiles

CleanupFinished == pc = "exited" /\ cleanupRuns >= 1

\* C11: when the cleanup routine has finished, no registered artifact and no
\* file matching a transient-name pattern is left on disk.
C11_NothingLeftAfterCleanup ==
    CleanupFinished => transient \cap ToClean = {}

\* C12: the cleanup routine runs exactly once per process, whatever the exit
\* path, and a failure inside it is not propagated: a process that reached
\* its final exit with status 0 ends with status 0.
C12_CleanupOnceAndSilent ==
    pc = "exited" =>
      /\ cleanupRuns = 1
      /\ exitPath = "normal" => exitCode = 0

PrerequisitesValidated == prereq # None

AbortedAtPrerequisites == pc = "exited" /\ exitPath = "prerequisites"

\* C13: prerequisite validation blocks the pipeline exactly when an error
\* entry was recorded: with errors the run aborts there, with warnings only
\* it goes on to issue retrieval.
C13_BlockedExactlyOnErrors ==
    PrerequisitesValidated =>
      (AbortedAtPrerequisites <=> prereq.errors > 0)

\* C14: with the credential missing or malformed, or a required tool
\* missing, validation records an error and the run aborts before the issue
\* fetch.
C14_MissingCredentialOrToolAborts ==
    ( /\ PrerequisitesValidated
      /\ \/ KeyMissing(prereq.key)
         \/ ~KeyFormatOk(prereq.key)
         \/ prereq.tool_missing )
    => /\ prereq.errors > 0
       /\ AbortedAtPrerequisites

\* the run got past prerequisite validation and issue retrieval and ran to
\* its own end (it was not stopped by a signal)
CompletedAfterIssue ==
    /\ pc = "exited"
    /\ exitPath \in { "prompt", "ai_failure", "normal" }

\* C15: every run that got past prerequisite validation and issue retrieval
\* emits exactly one has_changes value on completion, whether the task
\* succeeded or failed, and the value is true exactly when the working tree
\* differs from the commit.
C15_OneSignalPerRun ==
    CompletedAfterIssue =>
      /\ Len(emitted) = 1
      /\ emitted[1] <=> (fs # committed)

Interrupted == pc \in { "killed", "failed" }

\* the target of the operation is as it was before the operation
HoldsPrevious ==
    IF io.pre = None THEN io.target \notin DOMAIN fs
    ELSE io.target \in DOMAIN fs /\ fs[io.target] = io.pre

\* the target of the operation holds the whole of the new content
HoldsNew ==
    /\ io.target \in DOMAIN fs
    /\ fs[io.target] = File(io.data)

\* C16: when the process is interrupted or fails while a block is being
\* applied, the target file holds its complete previous content or the
\* complete new content, never a truncated or partial one.
C16_WritesAreAtomic ==
    (io # None /\ Interrupted) => (HoldsPrevious \/ HoldsNew)

\* a lookup of one of the two caches that found an entry for its key
LookedUp(fn) ==
    /\ lastStore # None
    /\ lastStore.fn = fn
    /\ lastStore.entry # None

\* C17: after a source file's modification time has advanced past the
\* mtime recorded with its cache entry, a lookup for the file is a miss,
\* whatever the age of the entry: load_cached_file_content fails and
\* prints nothing, and extract_markdown_structure computes the structure
\* again instead of returning the cached text.
C17_ModifiedSourceIsMiss ==
    /\ ( /\ LookedUp("load_cached_file_content")
         /\ lastStore.file_mtime > lastStore.entry.file_mtime )
       => ( lastStore.rc # 0 /\ lastStore.out = None )
    /\ ( /\ LookedUp("extract_markdown_structure")
         /\ lastStore.file_mtime > lastStore.entry.mtime )
       => lastStore.computed

\* an entry written in the current second, for a source modified after
\* the entry's recorded mtime, is looked up and missed
C17_Witness ==
    /\ LookedUp("load_cached_file_content")
    /\ lastStore.entry.json
    /\ lastStore.entry.file_path = lastStore.file_path
    /\ lastStore.entry.cached_at = clock
    /\ lastStore.file_mtime > lastStore.entry.file_mtime
    /\ lastStore.rc = 1

\* the last step wrote a store entry from a process that has a session
WroteEntry ==
    /\ lastStore # None
    /\ lastStore.fn \in { "save_issue_context", "cache_file_content" }
    /\ lastStore.session # ""

\* the entry that was replaced belonged to a session that is still open
ReplacedOpenSession ==
    /\ lastStore.replaced \in DOMAIN memory.sessions
    /\ memory.sessions[lastStore.replaced].status = "active"

\* C18: store entries are namespaced by session id: a session that writes
\* an issue entry or a file entry never overwrites an entry written by
\* another session that is open at the same time, also when both handle
\* the same issue number or cache the same file path.
C18_EntriesNamespacedBySession ==
    ( WroteEntry /\ ReplacedOpenSession )
      => lastStore.replaced = lastStore.session

\* C19: the response text is passed through the sanitizer before it is
\* written to a transient file or a log: whenever the response file
\* temp_ai_response_<issue>.md exists, the sanitizer has run.
C19_ResponseSanitizedBeforePersisted ==
    ResponseFile \in transient => lastSanitize # None

Sanitized == lastSanitize # None /\ lastSanitize.rc = 0

\* C20: the output of sanitize_output / sanitize_stdin for a text that
\* holds a key-shaped secret contains no part of the secret value: two
\* texts that differ only in the secret value sanitize to the same text.
C20_OutputIndependentOfSecret ==
    Sanitized => lastSanitize.out_a = lastSanitize.out_b

SanitizedTwice == Sanitized /\ lastSanitize.twice # None

\* C21: sanitization is idempotent: applying the ordered redaction rules
\* to a sanitized text yields the same text again.
C21_SanitizeIdempotent ==
    SanitizedTwice => lastSanitize.twice = lastSanitize.out_a

\* a text whose secret was redacted only in part has been sanitized twice
C21_Witness ==
    /\ SanitizedTwice
    /\ lastSanitize.fn = "sanitize_stdin"
    /\ lastSanitize.out_a # lastSanitize.before \o lastSanitize.a
    /\ lastSanitize.out_a # lastSanitize.out_b

\* the extraction loop reads a line that is not a bare fence-close line
\* while it is inside a block
ReadsInsideBlock ==
    /\ pc = "blocks"
    /\ in_code_block
    /\ response # << >>
    /\ ~IsBareFence(Head(response))
    /\ response' = Tail(response)

\* C22: while the parser is inside a block, every line other than a bare
\* fence-close line is appended unchanged to the block's content and the
\* block stays open: only a bare fence-close line ends the block.
C22_LinesCollectedVerbatim ==
    [][ ReadsInsideBlock
          => /\ in_code_block'
             /\ code_content' = code_content \o Head(response) \o << Nl >>
      ]_vars

\* the extraction loop reads the bare fence-close line of a block
ClosesBlock ==
    /\ pc = "blocks"
    /\ in_code_block
    /\ response # << >>
    /\ IsBareFence(Head(response))
    /\ ~in_code_block'

\* languages the case statement knows a default file for
InferableLanguages ==
    { <<"p", "y", "t", "h", "o", "n">>, <<"p", "y">>,
      <<"j", "a", "v", "a", "s", "c", "r", "i", "p", "t">>, <<"j", "s">>,
      <<"j", "s", "o", "n">>, <<"y", "a", "m", "l">>, <<"y", "m", "l">>,
      <<"m", "a", "r", "k", "d", "o", "w", "n">>, <<"m", "d">> }

MainPy == <<"m", "a", "i", "n", ".", "p", "y">>

\* C23: a block reaches the executor only with a non-empty file path: the
\* path of its fence-open line or, without one, the default of its
\* language; a block with no path and a language without a default (shell
\* languages, edit, no language) is neither validated nor executed, and
\* the loop goes on with the next line.
C23_PathGivenOrInferredElseDropped ==
    [][ ClosesBlock
          => /\ lastCall' # lastCall
                  => /\ lastCall'.file_path # << >>
                     /\ current_file # << >>
                          => lastCall'.file_path = current_file
                     /\ current_file = << >>
                          => /\ block_language \in InferableLanguages
                             /\ block_language = LangPy
                                  => EndsWith(lastCall'.file_path,
                                              <<".", "p", "y">>)
             /\ ( current_file = << >>
                    /\ block_language \notin InferableLanguages )
                  => /\ UNCHANGED << callVars, treeVars, changes_made >>
                     /\ pc' = "blocks"
                     /\ response' = Tail(response)
      ]_vars

\* three blocks without a path were dropped and the fourth, a python block
\* without a path, was written to main.py
C23_Witness ==
    /\ Called
    /\ lastCall.block = 4
    /\ lastCall.file_path = MainPy
    /\ lastCall.wrote

\* the extraction loop handles one line of the response
LoopStep == pc = "blocks" /\ response # << >> /\ response' # response

\* C24: applying a block, successfully or not, leaves the EXIT, INT and
\* TERM handlers of the process as they were: the handler installed by
\* setup_standard_traps is still the one that runs at exit.
C24_FileOperationsKeepTraps ==
    [][ LoopStep => UNCHANGED trapVars ]_vars

\* the last call was an edit whose block holds the two pairs
EditedWithPairs(s1, r1, s2, r2) ==
    /\ Called
    /\ lastCall.op = "edit"
    /\ lastCall.arg = TwoPairs(s1, r1, s2, r2)

\* the file the edit was made on, as $(<file) reads it
EditedContent ==
    WithoutTrailingNls(lastCall.pre[TargetOf(lastCall.file_path)].content)

EditableTarget ==
    /\ TargetOf(lastCall.file_path) \in DOMAIN lastCall.pre
    /\ ~TooLarge(lastCall.pre[TargetOf(lastCall.file_path)])

\* the call replaced the first occurrence of s by r and nothing else
AppliedPair(s, r) ==
    /\ lastCall.rc = 0
    /\ \E i \in 1..(Len(EditedContent) + 1) :
         /\ FirstOccurrenceAt(EditedContent, s, i)
         /\ lastCall.post[TargetOf(lastCall.file_path)].content =
              ReplacedAt(EditedContent, s, r, i) \o << Nl >>

ReadIssueEntry ==
    /\ lastStore # None
    /\ lastStore.fn = "load_issue_context"
    /\ lastStore.rc = 0

\* C26: every write of a store entry goes to a temporary file that is then
\* renamed over the entry, so that a concurrent reader of the store never
\* observes a partially written entry.
C26_ReaderNeverSeesPartialEntry ==
    ReadIssueEntry => lastStore.out # EmptyEntry

\* validate_openrouter_api_key returned
KeyValidated ==
    /\ prereq # None
    /\ prereq.fn = "validate_openrouter_api_key"

\* the call was made less than the cooldown after the previous live probe
\* of the same process
WithinCooldown ==
    /\ prereq.previous_live # None
    /\ prereq.at - prereq.previous_live.time < validation_cooldown

\* C27: the live credential probe is rate-limited by a cooldown window of
\* 60 seconds: a call of validate_openrouter_api_key less than the cooldown
\* after the previous live probe sends no second live probe.
C27_NoSecondProbeWithinCooldown ==
    ( KeyValidated /\ WithinCooldown ) => ~prereq.live

\* generate_smart_file_context returned a context for a file
Generated ==
    /\ lastStore # None
    /\ lastStore.fn = "generate_smart_file_context"
    /\ lastStore.rc = 0

\* the file the last call was about holds a heading
HasHeadings ==
    \E i \in 1..Len(sources[lastStore.file_path].lines) :
      IsHeader(sources[lastStore.file_path].lines[i])

\* C28: for a markdown file that contains headings,
\* generate_smart_file_context returns the structural outline plus up to
\* two sections most relevant to the query text, not the raw first-lines
\* preview used for unstructured files.
C28_OutlineForStructuredMarkdown ==
    ( Generated /\ IsMarkdown(lastStore.file_path) /\ HasHeadings )
      => /\ lastStore.context.kind = "structure"
         /\ Len(lastStore.context.sections) <= 2

\* find_relevant_sections returned successfully
Found ==
    /\ lastStore # None
    /\ lastStore.fn = "find_relevant_sections"
    /\ lastStore.rc = 0

\* the sections of the file with a positive score, in file order
ScoredSections ==
    LET keyword_array ==
          KeywordArray(LowerCase(SanitizeKeywords(lastStore.keywords)))
    IN Scored(ScanLines(NoSections, sources[lastStore.file_path].lines,
                        keyword_array), keyword_array)

\* section i of all comes before section j in the claimed order: a higher
\* score, or the same score and met earlier
RanksBefore(all, i, j) ==
    \/ all[i].score > all[j].score
    \/ all[i].score = all[j].score /\ i < j

\* out is the first sections of all in the claimed order
IsTopOf(out, all, max_sections) ==
    /\ Len(out) = IF Len(all) < max_sections THEN Len(all) ELSE max_sections
    /\ \E f \in [1..Len(out) -> 1..Len(all)] :
         /\ \A k \in 1..Len(out) : out[k] = all[f[k]]
         /\ \A k, l \in 1..Len(out) : k < l => RanksBefore(all, f[k], f[l])
         /\ \A i \in 1..Len(all) :
              (\A k \in 1..Len(out) : f[k] # i)
                => \A k \in 1..Len(out) : RanksBefore(all, f[k], i)

\* C29: find_relevant_sections returns at most max_sections sections in
\* non-increasing score order, the score of a section being the number of
\* keyword occurrences in its text plus 3 for every keyword occurring in
\* its header; sections scoring 0 are left out and sections of equal score
\* keep the order in which they were met in the file.
C29_TopSectionsByScore ==
    Found => IsTopOf(lastStore.out, ScoredSections, lastStore.max_sections)

\* C30: load_cached_file_content for a path only ever returns content that
\* cache_file_content stored for the same path: two distinct source paths
\* never share one cache entry.
C30_LookupReturnsContentOfSamePath ==
    ( LookedUp("load_cached_file_content") /\ lastStore.rc = 0 )
      => lastStore.entry.file_path = lastStore.file_path

=============================================================================
